---- MODULE Spec2Model ----
(***************************************************************************)
(* Semantic citation detection and linking of lawgraph.                    *)
(*                                                                         *)
(* Texts are sequences of whitespace-separated tokens (strings); a match   *)
(* span [start, end) counts tokens, start being 0-based as in Python.      *)
(* Every regular expression of the source is anchored on word boundaries   *)
(* and separates its parts by whitespace, so matches begin and end on      *)
(* token boundaries and the order and overlap of spans are those of the    *)
(* character offsets.  Identifiers, keys and article numbers are real      *)
(* strings, handled character by character.  Confidences are hundredths.   *)
(***************************************************************************)
EXTENDS Integers, Sequences, FiniteSets, TLC

(***************************************************************************)
(* Python string primitives over the ASCII characters the texts use.       *)
(***************************************************************************)
Lowers == "abcdefghijklmnopqrstuvwxyz"
Uppers == "ABCDEFGHIJKLMNOPQRSTUVWXYZ"
Digits == "0123456789"

Char(s, i) == SubSeq(s, i, i)

IndexIn(c, alphabet) ==
  IF \E i \in 1..Len(alphabet) : Char(alphabet, i) = c
  THEN CHOOSE i \in 1..Len(alphabet) : Char(alphabet, i) = c
  ELSE 0

IsDigit(c) == IndexIn(c, Digits) > 0
IsLetter(c) == IndexIn(c, Lowers) > 0 \/ IndexIn(c, Uppers) > 0

LowerChar(c) ==
  LET i == IndexIn(c, Uppers) IN IF i > 0 THEN Char(Lowers, i) ELSE c
UpperChar(c) ==
  LET i == IndexIn(c, Lowers) IN IF i > 0 THEN Char(Uppers, i) ELSE c

RECURSIVE Lower(_)
Lower(s) == IF s = "" THEN "" ELSE LowerChar(Char(s, 1)) \o Lower(Tail(s))

RECURSIVE Upper(_)
Upper(s) == IF s = "" THEN "" ELSE UpperChar(Char(s, 1)) \o Upper(Tail(s))

RECURSIVE LStrip(_, _)
LStrip(s, c) ==
  IF s # "" /\ Char(s, 1) = c THEN LStrip(Tail(s), c) ELSE s

RECURSIVE RStrip(_, _)
RStrip(s, c) ==
  IF s # "" /\ Char(s, Len(s)) = c THEN RStrip(SubSeq(s, 1, Len(s) - 1), c) ELSE s

\* str.strip(): the only whitespace of the modelled strings is the blank.
Strip(s) == RStrip(LStrip(s, " "), " ")

AllDigits(s) == \A i \in 1..Len(s) : IsDigit(Char(s, i))
AllLetters(s) == \A i \in 1..Len(s) : IsLetter(Char(s, i))

\* Number of leading digits of s.
RECURSIVE DigitPrefixLen(_)
DigitPrefixLen(s) ==
  IF s # "" /\ IsDigit(Char(s, 1)) THEN 1 + DigitPrefixLen(Tail(s)) ELSE 0

\* int(s) for a string of decimal digits.
RECURSIVE ParseInt(_)
ParseInt(s) ==
  IF s = "" THEN 0
  ELSE 10 * ParseInt(SubSeq(s, 1, Len(s) - 1)) + (IndexIn(Char(s, Len(s)), Digits) - 1)

\* Python's ordering of two characters (their code points): digits, then upper
\* case, then "_", then lower case; any other character sorts first.
CodeOrder == Digits \o Uppers \o "_" \o Lowers
CharLess(a, b) == IndexIn(a, CodeOrder) < IndexIn(b, CodeOrder)

RECURSIVE StrLess(_, _)
StrLess(a, b) ==
  IF b = "" THEN FALSE
  ELSE IF a = "" THEN TRUE
  ELSE IF Char(a, 1) = Char(b, 1) THEN StrLess(Tail(a), Tail(b))
  ELSE CharLess(Char(a, 1), Char(b, 1))

\* None of Python, and the truth value of an optional string.
None == "<None>"
Truthy(s) == s # None /\ s # ""

(***************************************************************************)
(* lawgraph.models: node keys.                                             *)
(***************************************************************************)
\* [^a-z0-9_]
KeyChar(c) == IndexIn(c, Lowers) > 0 \/ IsDigit(c) \/ c = "_"

\* _KEY_SANITIZE_RE.sub("_", s) then _KEY_COLLAPSE_RE.sub("_", s): every run
\* of characters outside [a-z0-9_] becomes one "_", every run of "_" one "_".
RECURSIVE SubAndCollapse(_, _)
SubAndCollapse(s, prevUnderscore) ==
  IF s = "" THEN ""
  ELSE LET c == Char(s, 1) IN
       IF KeyChar(c) /\ c # "_"
       THEN c \o SubAndCollapse(Tail(s), FALSE)
       ELSE IF prevUnderscore
            THEN SubAndCollapse(Tail(s), TRUE)
            ELSE "_" \o SubAndCollapse(Tail(s), TRUE)

\* A sanitizer that keeps the underscores at the two ends.
_sanitize_key_unstripped(value, fallback) ==
  LET normalized == SubAndCollapse(Strip(Lower(value)), FALSE)
  IN IF normalized = "" THEN fallback ELSE normalized

_sanitize_key(value, fallback) ==
  LET normalized == RStrip(LStrip(SubAndCollapse(Strip(Lower(value)), FALSE), "_"), "_")
  IN IF normalized = "" THEN fallback ELSE normalized

\* "_".join(part for part in parts if part is not None and part.strip())
RECURSIVE JoinParts(_)
JoinParts(parts) ==
  IF parts = <<>> THEN ""
  ELSE LET p == Head(parts)
           rest == JoinParts(Tail(parts))
       IN IF p = None \/ Strip(p) = "" THEN rest
          ELSE IF rest = "" THEN p ELSE p \o "_" \o rest

make_node_key(parts) ==
  LET joined == JoinParts(parts)
  IN _sanitize_key(IF joined = "" THEN "node" ELSE joined, "node")

(***************************************************************************)
(* Token-level matching shared by the detectors.                           *)
(***************************************************************************)
\* text[i] when i is a position of text, else a token that matches nothing.
Tok(text, i) == IF i >= 1 /\ i <= Len(text) THEN text[i] ELSE ""

RECURSIVE JoinTokens(_)
JoinTokens(toks) ==
  IF toks = <<>> THEN ""
  ELSE IF Len(toks) = 1 THEN toks[1]
  ELSE toks[1] \o " " \o JoinTokens(Tail(toks))

\* text[start:end] of a span, as one string.
Slice(text, start, end) == JoinTokens(SubSeq(text, start + 1, end))

\* (\d+[a-z]?) under re.IGNORECASE, matched against a whole token.
IsArtNum1(tok) ==
  LET d == DigitPrefixLen(tok)
  IN d >= 1 /\ Len(tok) - d <= 1 /\ AllLetters(SubSeq(tok, d + 1, Len(tok)))

\* \d+[a-zA-Z]{0,4} matched against a whole token.
IsArtNum4(tok) ==
  LET d == DigitPrefixLen(tok)
  IN d >= 1 /\ Len(tok) - d <= 4 /\ AllLetters(SubSeq(tok, d + 1, Len(tok)))

\* pattern.finditer(text): the non-overlapping matches from left to right.
\* lengths[i] is the length of the match that begins at token i, 0 if none.
RECURSIVE finditer(_, _)
finditer(lengths, i) ==
  IF i > Len(lengths) THEN <<>>
  ELSE IF lengths[i] > 0
       THEN <<[start |-> i - 1, end |-> i - 1 + lengths[i]]>>
            \o finditer(lengths, i + lengths[i])
       ELSE finditer(lengths, i + 1)

\* Two half-open spans overlap: not (a.end <= b.start or a.start >= b.end).
Overlaps(a, b) == ~(a.end <= b.start \/ a.start >= b.end)

(***************************************************************************)
(* pipelines/semantic/rechtspraak_articles.py: detect_article_references.  *)
(***************************************************************************)
CONF_ALIAS == 95
CONF_BARE_NUMBER == 35

RsAliasCodes == {"sr", "sv", "wvw"}

\* _ALIAS_PATTERNS[0]: \bart\.\s*(\d+[a-z]?)\s*(Sr|Sv|WVW)\b
RsAliasArt(text, i) ==
  IF Lower(Tok(text, i)) = "art." /\ IsArtNum1(Tok(text, i + 1))
     /\ Lower(Tok(text, i + 2)) \in RsAliasCodes
  THEN 3 ELSE 0

\* _ALIAS_PATTERNS[1]: \bartikel\s+(\d+[a-z]?)\s*(Sr|Sv|WVW)\b
RsAliasArtikel(text, i) ==
  IF Lower(Tok(text, i)) = "artikel" /\ IsArtNum1(Tok(text, i + 1))
     /\ Lower(Tok(text, i + 2)) \in RsAliasCodes
  THEN 3 ELSE 0

\* _NUMBER_PATTERNS[0]: \bartikel\s+(\d+[a-z]?)\b
RsNumberArtikel(text, i) ==
  IF Lower(Tok(text, i)) = "artikel" /\ IsArtNum1(Tok(text, i + 1)) THEN 2 ELSE 0

\* _NUMBER_PATTERNS[1]: \bart\.\s*(\d+[a-z]?)\b
RsNumberArt(text, i) ==
  IF Lower(Tok(text, i)) = "art." /\ IsArtNum1(Tok(text, i + 1)) THEN 2 ELSE 0

\* {alias.upper(): bwb_id for alias, bwb_id in mapping.items() if alias and bwb_id}
normalized_mapping(mapping) ==
  LET kept == {a \in DOMAIN mapping : a # "" /\ mapping[a] # ""}
  IN [k \in {Upper(a) : a \in kept} |->
        mapping[CHOOSE a \in kept : Upper(a) = k]]

\* dict.get(key), None when the key is absent.
Get(map, key) == IF key \in DOMAIN map THEN map[key] ELSE None

RsEmpty == [hits |-> <<>>, seen_pairs |-> {}, alias_spans |-> <<>>]

\* The hit keeps the span of its match beside the fields of ArticleHit.
_record_alias(st, text, match, bwb_id) ==
  LET article_number == Tok(text, match.start + 2)
      pair == <<bwb_id, article_number>>
  IN IF article_number = "" THEN st
     ELSE IF pair \in st.seen_pairs THEN st
     ELSE [hits |-> Append(st.hits,
                      [bwb_id |-> bwb_id, article_number |-> article_number,
                       confidence |-> CONF_ALIAS,
                       raw_match |-> Slice(text, match.start, match.end),
                       start |-> match.start, end |-> match.end]),
           seen_pairs |-> st.seen_pairs \cup {pair},
           alias_spans |-> Append(st.alias_spans, match)]

OverlapsAlias(st, match) ==
  \E k \in 1..Len(st.alias_spans) : Overlaps(match, st.alias_spans[k])

_record_number(st, text, match) ==
  LET article_number == Tok(text, match.start + 2)
      pair == <<"", article_number>>
  IN IF OverlapsAlias(st, match) THEN st
     ELSE IF article_number = "" THEN st
     ELSE IF pair \in st.seen_pairs THEN st
     ELSE [hits |-> Append(st.hits,
                      [bwb_id |-> "", article_number |-> article_number,
                       confidence |-> CONF_BARE_NUMBER,
                       raw_match |-> Slice(text, match.start, match.end),
                       start |-> match.start, end |-> match.end]),
           seen_pairs |-> st.seen_pairs \cup {pair},
           alias_spans |-> st.alias_spans]

\* The inner loop of _collect_alias_patterns over the matches of one pattern.
RECURSIVE RsAliasLoop(_, _, _, _)
RsAliasLoop(st, text, matches, normalized) ==
  IF matches = <<>> THEN st
  ELSE LET match == Head(matches)
           alias == Tok(text, match.start + 3)
           bwb_id == Get(normalized, Upper(alias))
       IN RsAliasLoop(
            IF alias = "" \/ ~Truthy(bwb_id) THEN st
            ELSE _record_alias(st, text, match, bwb_id),
            text, Tail(matches), normalized)

_collect_alias_patterns(st, text, normalized) ==
  RsAliasLoop(
    RsAliasLoop(st, text, finditer([j \in 1..Len(text) |-> RsAliasArt(text, j)], 1), normalized),
    text, finditer([j \in 1..Len(text) |-> RsAliasArtikel(text, j)], 1), normalized)

\* The inner loop of _collect_number_patterns over the matches of one pattern.
RECURSIVE RsNumberLoop(_, _, _)
RsNumberLoop(st, text, matches) ==
  IF matches = <<>> THEN st
  ELSE LET match == Head(matches)
       IN RsNumberLoop(
            IF OverlapsAlias(st, match) THEN st ELSE _record_number(st, text, match),
            text, Tail(matches))

_collect_number_patterns(st, text) ==
  RsNumberLoop(
    RsNumberLoop(st, text, finditer([j \in 1..Len(text) |-> RsNumberArtikel(text, j)], 1)),
    text, finditer([j \in 1..Len(text) |-> RsNumberArt(text, j)], 1))

detect_article_references(text, mapping) ==
  IF text = <<>> THEN <<>>
  ELSE _collect_number_patterns(
         _collect_alias_patterns(RsEmpty, text, normalized_mapping(mapping)),
         text).hits

(***************************************************************************)
(* Patterns and helpers shared by eu_articles.py and tk_articles.py.       *)
(***************************************************************************)
\* (\d{4})/(\d+)(?:/EU|/EG)?\b matched against a whole token.
IsYearNumber(tok) ==
  /\ Len(tok) >= 6
  /\ AllDigits(SubSeq(tok, 1, 4))
  /\ Char(tok, 5) = "/"
  /\ LET d == DigitPrefixLen(SubSeq(tok, 6, Len(tok)))
     IN d >= 1 /\ Upper(SubSeq(tok, 6 + d, Len(tok))) \in {"", "/EU", "/EG"}

YearOf(tok) == SubSeq(tok, 1, 4)
NumberOf(tok) == SubSeq(tok, 6, 5 + DigitPrefixLen(SubSeq(tok, 6, Len(tok))))

\* \bCELEX:([0-9A-Z()\\/\.\-]+)\b matched against a whole token.
IsCelexToken(tok) ==
  /\ Len(tok) > 6
  /\ Upper(SubSeq(tok, 1, 6)) = "CELEX:"
  /\ \A i \in 7..Len(tok) : IsDigit(Char(tok, i)) \/ IsLetter(Char(tok, i))

CelexOf(tok) == SubSeq(tok, 7, Len(tok))

\* \bbwb[rR]0\d{6}\b under re.IGNORECASE, and \b(BWBR0\d{6})\b likewise.
IsBwbToken(tok) ==
  Len(tok) = 11 /\ Upper(SubSeq(tok, 1, 5)) = "BWBR0" /\ AllDigits(SubSeq(tok, 6, 11))

\* f"{padded:04d}"
ZeroPad4(n) ==
  LET digits == ToString(n)
  IN IF Len(digits) >= 4 THEN digits ELSE SubSeq("0000", 1, 4 - Len(digits)) \o digits

_format_celex(kind, year, number) ==
  LET letter == IF kind = "directive" THEN "L" ELSE "R"
      padded == ParseInt(number)
  IN "3" \o year \o letter \o ZeroPad4(padded)

\* _normalize_code_aliases: alias.strip().upper() -> target.strip().upper()
_normalize_code_aliases(mapping) ==
  LET kept == {a \in DOMAIN mapping : a # "" /\ mapping[a] # ""}
  IN [k \in {Upper(Strip(a)) : a \in kept} |->
        Upper(Strip(mapping[CHOOSE a \in kept : Upper(Strip(a)) = k]))]

\* \bRichtlijn\s+(\d{4})/(\d+)(?:/EU|/EG)?\b
MatchRichtlijn(text, i) ==
  IF Lower(Tok(text, i)) = "richtlijn" /\ IsYearNumber(Tok(text, i + 1)) THEN 2 ELSE 0

\* \bVerordening\s+(\d{4})/(\d+)(?:/EU|/EG)?\b
MatchVerordening(text, i) ==
  IF Lower(Tok(text, i)) = "verordening" /\ IsYearNumber(Tok(text, i + 1)) THEN 2 ELSE 0

\* \bCELEX:([0-9A-Z()\\/\.\-]+)\b
MatchCelex(text, i) == IF IsCelexToken(Tok(text, i)) THEN 1 ELSE 0

\* \bbwb[rR]0\d{6}\b
MatchBwb(text, i) == IF IsBwbToken(Tok(text, i)) THEN 1 ELSE 0

\* A CitationHit; start and end keep the span of the match.
CitationHit(kind, celex, bwb_id, article_number, confidence, text, match) ==
  [kind |-> kind, celex |-> celex, bwb_id |-> bwb_id,
   article_number |-> article_number, confidence |-> confidence,
   raw_match |-> Slice(text, match.start, match.end),
   start |-> match.start, end |-> match.end]

(***************************************************************************)
(* pipelines/semantic/eu_articles.py: detect_eu_citations.                 *)
(***************************************************************************)
CONF_EU_ARTICLE_OF_INSTRUMENT == 85
CONF_EU_CELEX == 90
CONF_EU_INSTRUMENT == 70
CONF_EU_ALIAS == 95
CONF_EU_BWB == 70

EuAliasCodes == {"sr", "sv", "bw"}

\* \bartikel\s+(\d+[a-z]?)\s+van\s+Richtlijn\s+(\d{4})/(\d+)(?:/EU|/EG)?\b
EuArticleWithDirective(text, i) ==
  IF Lower(Tok(text, i)) = "artikel" /\ IsArtNum1(Tok(text, i + 1))
     /\ Lower(Tok(text, i + 2)) = "van" /\ MatchRichtlijn(text, i + 3) > 0
  THEN 5 ELSE 0

\* \bartikel\s+(\d+[a-z]?)\s+van\s+Verordening\s+(\d{4})/(\d+)(?:/EU|/EG)?\b
EuArticleWithRegulation(text, i) ==
  IF Lower(Tok(text, i)) = "artikel" /\ IsArtNum1(Tok(text, i + 1))
     /\ Lower(Tok(text, i + 2)) = "van" /\ MatchVerordening(text, i + 3) > 0
  THEN 5 ELSE 0

\* \bartikel\s+(\d+[a-z]?)\s*(Sr|Sv|BW)\b
EuArticleBwbAlias(text, i) ==
  IF Lower(Tok(text, i)) = "artikel" /\ IsArtNum1(Tok(text, i + 1))
     /\ Lower(Tok(text, i + 2)) \in EuAliasCodes
  THEN 3 ELSE 0

EuSeenKey(hit) == <<hit.kind, hit.celex, hit.bwb_id, hit.article_number>>

\* A _record that keeps every hit.
Eu_record_every(st, hit) == [hits |-> Append(st.hits, hit), seen |-> st.seen]

Eu_record(st, hit) ==
  IF EuSeenKey(hit) \in st.seen THEN st
  ELSE [hits |-> Append(st.hits, hit), seen |-> st.seen \cup {EuSeenKey(hit)}]

\* One for-loop of a detector over its matches: made[k] is <<hit>> for the
\* k-th match, or <<>> where the loop body skips the match (continue).
RECURSIVE EuRecordLoop(_, _)
EuRecordLoop(st, made) ==
  IF made = <<>> THEN st
  ELSE EuRecordLoop(IF Head(made) = <<>> THEN st ELSE Eu_record(st, Head(made)[1]),
                    Tail(made))

EuHitArticleWithDirective(text, match, aliases) ==
  <<CitationHit("article",
                _format_celex("directive", YearOf(Tok(text, match.start + 5)),
                              NumberOf(Tok(text, match.start + 5))),
                None, Strip(Tok(text, match.start + 2)),
                CONF_EU_ARTICLE_OF_INSTRUMENT, text, match)>>

EuHitArticleWithRegulation(text, match, aliases) ==
  <<CitationHit("article",
                _format_celex("regulation", YearOf(Tok(text, match.start + 5)),
                              NumberOf(Tok(text, match.start + 5))),
                None, Strip(Tok(text, match.start + 2)),
                CONF_EU_ARTICLE_OF_INSTRUMENT, text, match)>>

EuHitCelex(text, match, aliases) ==
  LET celex_value == CelexOf(Tok(text, match.start + 1))
  IN IF celex_value = "" THEN <<>>
     ELSE <<CitationHit("instrument", Upper(celex_value), None, None,
                        CONF_EU_CELEX, text, match)>>

EuHitRichtlijn(text, match, aliases) ==
  <<CitationHit("instrument",
                _format_celex("directive", YearOf(Tok(text, match.start + 2)),
                              NumberOf(Tok(text, match.start + 2))),
                None, None, CONF_EU_INSTRUMENT, text, match)>>

EuHitVerordening(text, match, aliases) ==
  <<CitationHit("instrument",
                _format_celex("regulation", YearOf(Tok(text, match.start + 2)),
                              NumberOf(Tok(text, match.start + 2))),
                None, None, CONF_EU_INSTRUMENT, text, match)>>

\* A body of the alias loop that takes an unmapped abbreviation for the target.
EuHitArticleBwbAliasUnchecked(text, match, aliases) ==
  <<CitationHit("article", None, Upper(Tok(text, match.start + 3)),
                Strip(Tok(text, match.start + 2)), CONF_EU_ALIAS, text, match)>>

\* aliases is normalized_codes here.
EuHitArticleBwbAlias(text, match, aliases) ==
  LET article_number == Tok(text, match.start + 2)
      alias == Tok(text, match.start + 3)
      bwb_id == Get(aliases, Upper(Strip(alias)))
  IN IF alias = "" THEN <<>>
     ELSE IF ~Truthy(bwb_id) \/ article_number = "" THEN <<>>
     ELSE <<CitationHit("article", None, bwb_id, Strip(article_number),
                        CONF_EU_ALIAS, text, match)>>

EuHitBwb(text, match, aliases) ==
  LET bwb_id == Tok(text, match.start + 1)
  IN IF bwb_id = "" THEN <<>>
     ELSE <<CitationHit("instrument", None, Upper(bwb_id), None,
                        CONF_EU_BWB, text, match)>>

EuEmpty == [hits |-> <<>>, seen |-> {}]

detect_eu_citations(text, code_aliases) ==
  IF text = <<>> THEN <<>>
  ELSE
    LET normalized_codes == _normalize_code_aliases(code_aliases)
        s1 == EuRecordLoop(EuEmpty,
            LET ms == finditer([j \in 1..Len(text) |-> EuArticleWithDirective(text, j)], 1)
            IN [k \in DOMAIN ms |-> EuHitArticleWithDirective(text, ms[k], normalized_codes)])
        s2 == EuRecordLoop(s1,
            LET ms == finditer([j \in 1..Len(text) |-> EuArticleWithRegulation(text, j)], 1)
            IN [k \in DOMAIN ms |-> EuHitArticleWithRegulation(text, ms[k], normalized_codes)])
        s3 == EuRecordLoop(s2,
            LET ms == finditer([j \in 1..Len(text) |-> MatchCelex(text, j)], 1)
            IN [k \in DOMAIN ms |-> EuHitCelex(text, ms[k], normalized_codes)])
        s4 == EuRecordLoop(s3,
            LET ms == finditer([j \in 1..Len(text) |-> MatchRichtlijn(text, j)], 1)
            IN [k \in DOMAIN ms |-> EuHitRichtlijn(text, ms[k], normalized_codes)])
        s5 == EuRecordLoop(s4,
            LET ms == finditer([j \in 1..Len(text) |-> MatchVerordening(text, j)], 1)
            IN [k \in DOMAIN ms |-> EuHitVerordening(text, ms[k], normalized_codes)])
        s6 == EuRecordLoop(s5,
            LET ms == finditer([j \in 1..Len(text) |-> EuArticleBwbAlias(text, j)], 1)
            IN [k \in DOMAIN ms |-> EuHitArticleBwbAlias(text, ms[k], normalized_codes)])
        s7 == EuRecordLoop(s6,
            LET ms == finditer([j \in 1..Len(text) |-> MatchBwb(text, j)], 1)
            IN [k \in DOMAIN ms |-> EuHitBwb(text, ms[k], normalized_codes)])
    IN s7.hits

(***************************************************************************)
(* pipelines/semantic/tk_articles.py: detect_tk_citations.                 *)
(* instrument_aliases is the parsed table in configuration order: a        *)
(* sequence of [label, bwb_id, celex], label being a sequence of tokens.   *)
(***************************************************************************)
CONF_TK_NAMED_ACT == 60
CONF_TK_BWBR == 75
CONF_TK_ALIAS == 95
CONF_TK_CELEX == 90
CONF_TK_INSTRUMENT == 65

\* \bartikel\s+(\d+[a-z]?)\s*(Sr|Sv|BW|EVRM)\b
TkAliasArtikel(text, i) ==
  IF Lower(Tok(text, i)) = "artikel" /\ IsArtNum1(Tok(text, i + 1))
     /\ Lower(Tok(text, i + 2)) \in {"sr", "sv", "bw", "evrm"}
  THEN 3 ELSE 0

\* \bart\.\s*(\d+[a-z]?)\s*(Sr|Sv|BW)\b
TkAliasArt(text, i) ==
  IF Lower(Tok(text, i)) = "art." /\ IsArtNum1(Tok(text, i + 1))
     /\ Lower(Tok(text, i + 2)) \in {"sr", "sv", "bw"}
  THEN 3 ELSE 0

\* (?<!\w)label(?!\w) under re.IGNORECASE: the matches of one named act.
RECURSIVE NamedActMatches(_, _, _)
NamedActMatches(label, text, i) ==
  IF i + Len(label) - 1 > Len(text) THEN <<>>
  ELSE IF \A k \in 1..Len(label) : Lower(text[i + k - 1]) = Lower(label[k])
       THEN <<[start |-> i - 1, end |-> i - 1 + Len(label)]>>
            \o NamedActMatches(label, text, i + Len(label))
       ELSE NamedActMatches(label, text, i + 1)

\* _build_named_act_patterns: the aliases that name a BWB id or a CELEX.
RECURSIVE _build_named_act_patterns(_)
_build_named_act_patterns(aliases) ==
  IF aliases = <<>> THEN <<>>
  ELSE (IF Truthy(Head(aliases).bwb_id) \/ Truthy(Head(aliases).celex)
        THEN <<Head(aliases)>> ELSE <<>>)
       \o _build_named_act_patterns(Tail(aliases))

TkSeenKey(hit) == <<hit.kind, hit.bwb_id, hit.article_number, hit.celex>>

Tk_record(st, hit) ==
  IF TkSeenKey(hit) \in st.seen THEN st
  ELSE [hits |-> Append(st.hits, hit), seen |-> st.seen \cup {TkSeenKey(hit)}]

RECURSIVE TkRecordLoop(_, _)
TkRecordLoop(st, made) ==
  IF made = <<>> THEN st
  ELSE TkRecordLoop(IF Head(made) = <<>> THEN st ELSE Tk_record(st, Head(made)[1]),
                    Tail(made))

\* aliases is the entry [label, bwb_id, celex] of the pattern here.
TkHitNamedAct(text, match, aliases) ==
  <<CitationHit("instrument", aliases.celex, aliases.bwb_id, None,
                CONF_TK_NAMED_ACT, text, match)>>

RECURSIVE TkNamedActLoop(_, _, _)
TkNamedActLoop(st, text, patterns) ==
  IF patterns = <<>> THEN st
  ELSE TkNamedActLoop(
         TkRecordLoop(st,
            LET ms == NamedActMatches(Head(patterns).label, text, 1)
            IN [k \in DOMAIN ms |-> TkHitNamedAct(text, ms[k], Head(patterns))]),
         text, Tail(patterns))

TkHitBwbr(text, match, aliases) ==
  LET identifier == Tok(text, match.start + 1)
  IN IF identifier = "" THEN <<>>
     ELSE <<CitationHit("instrument", None, Upper(identifier), None,
                        CONF_TK_BWBR, text, match)>>

TkHitArticleAlias(text, match, aliases) ==
  LET article_number == Tok(text, match.start + 2)
      alias == Tok(text, match.start + 3)
      bwb_id == Get(aliases, Upper(Strip(alias)))
  IN IF alias = "" \/ article_number = "" THEN <<>>
     ELSE IF ~Truthy(bwb_id) THEN <<>>
     ELSE <<CitationHit("article", None, bwb_id, Strip(article_number),
                        CONF_TK_ALIAS, text, match)>>

TkHitCelex(text, match, aliases) ==
  LET celex_value == CelexOf(Tok(text, match.start + 1))
  IN IF celex_value = "" THEN <<>>
     ELSE <<CitationHit("instrument", Upper(celex_value), None, None,
                        CONF_TK_CELEX, text, match)>>

TkHitRichtlijn(text, match, aliases) ==
  <<CitationHit("instrument",
                _format_celex("directive", YearOf(Tok(text, match.start + 2)),
                              NumberOf(Tok(text, match.start + 2))),
                None, None, CONF_TK_INSTRUMENT, text, match)>>

TkHitVerordening(text, match, aliases) ==
  <<CitationHit("instrument",
                _format_celex("regulation", YearOf(Tok(text, match.start + 2)),
                              NumberOf(Tok(text, match.start + 2))),
                None, None, CONF_TK_INSTRUMENT, text, match)>>

TkEmpty == [hits |-> <<>>, seen |-> {}]

detect_tk_citations(text, code_aliases, instrument_aliases) ==
  IF text = <<>> THEN <<>>
  ELSE
    LET normalized_codes == _normalize_code_aliases(code_aliases)
        s1 == TkNamedActLoop(TkEmpty, text, _build_named_act_patterns(instrument_aliases))
        s2 == TkRecordLoop(s1,
            LET ms == finditer([j \in 1..Len(text) |-> MatchBwb(text, j)], 1)
            IN [k \in DOMAIN ms |-> TkHitBwbr(text, ms[k], normalized_codes)])
        s3 == TkRecordLoop(s2,
            LET ms == finditer([j \in 1..Len(text) |-> TkAliasArtikel(text, j)], 1)
            IN [k \in DOMAIN ms |-> TkHitArticleAlias(text, ms[k], normalized_codes)])
        s4 == TkRecordLoop(s3,
            LET ms == finditer([j \in 1..Len(text) |-> TkAliasArt(text, j)], 1)
            IN [k \in DOMAIN ms |-> TkHitArticleAlias(text, ms[k], normalized_codes)])
        s5 == TkRecordLoop(s4,
            LET ms == finditer([j \in 1..Len(text) |-> MatchCelex(text, j)], 1)
            IN [k \in DOMAIN ms |-> TkHitCelex(text, ms[k], normalized_codes)])
        s6 == TkRecordLoop(s5,
            LET ms == finditer([j \in 1..Len(text) |-> MatchRichtlijn(text, j)], 1)
            IN [k \in DOMAIN ms |-> TkHitRichtlijn(text, ms[k], normalized_codes)])
        s7 == TkRecordLoop(s6,
            LET ms == finditer([j \in 1..Len(text) |-> MatchVerordening(text, j)], 1)
            IN [k \in DOMAIN ms |-> TkHitVerordening(text, ms[k], normalized_codes)])
    IN s7.hits

(***************************************************************************)
(* pipelines/semantic/bwb_detect.py: detect_bwb_article_citations.         *)
(***************************************************************************)
_DEFAULT_CONFIDENCE == 95
_RANGE_CONFIDENCE == 80

\* (?:artikel(?:en)?|art(?:ikel)?\.?) under re.IGNORECASE
IsArticleWord(tok) ==
  Lower(tok) \in {"artikel", "artikelen", "art", "art.", "artikel."}

\* Tokens taken by one (?:\s*(?:tot\s+en\s+met|tot|en|,|&|-)\s*\d+[a-zA-Z]{0,4})
\* after the number at token j: 4, 2, or 0 when the repetition stops.
ConnectorStep(text, j) ==
  IF Lower(Tok(text, j + 1)) = "tot" /\ Lower(Tok(text, j + 2)) = "en"
     /\ Lower(Tok(text, j + 3)) = "met" /\ IsArtNum4(Tok(text, j + 4))
  THEN 4
  ELSE IF Lower(Tok(text, j + 1)) \in {"tot", "en", ",", "&", "-"}
          /\ IsArtNum4(Tok(text, j + 2))
       THEN 2
       ELSE 0

\* The last token of the greedy group "numbers" whose latest number is token j.
RECURSIVE NumbersEnd(_, _)
NumbersEnd(text, j) ==
  IF ConnectorStep(text, j) = 0 THEN j
  ELSE NumbersEnd(text, j + ConnectorStep(text, j))

\* _ARTICLE_REFERENCE_PATTERN at token i: \b(?:de\s+)?(?:artikel...)\s+(?P<numbers>...)
ArticleReference(text, i) ==
  LET word == IF Lower(Tok(text, i)) = "de" /\ IsArticleWord(Tok(text, i + 1))
              THEN i + 1 ELSE i
  IN IF IsArticleWord(Tok(text, word)) /\ IsArtNum4(Tok(text, word + 1))
     THEN NumbersEnd(text, word + 1) - i + 1
     ELSE 0

\* match.start("numbers") of a match of _ARTICLE_REFERENCE_PATTERN.
NumbersStart(text, match) ==
  IF IsArticleWord(Tok(text, match.start + 1)) THEN match.start + 1 ELSE match.start + 2

\* _ARTICLE_NUMBER_PATTERN.finditer(block_text), as positions in the text.
ArticleNumber(text, i) == IF IsArtNum4(Tok(text, i)) THEN 1 ELSE 0

RECURSIVE NumberMatches(_, _, _)
NumberMatches(text, i, block_end) ==
  IF i > block_end THEN <<>>
  ELSE IF ArticleNumber(text, i) > 0
       THEN <<[start |-> i - 1, end |-> i]>> \o NumberMatches(text, i + 1, block_end)
       ELSE NumberMatches(text, i + 1, block_end)

ArticleCitationHit(start, end, text, bwb_id, article_number, confidence) ==
  [start |-> start, end |-> end, text |-> text, bwb_id |-> bwb_id,
   article_number |-> article_number, confidence |-> confidence]

\* _parse_article_int: int of the leading digits, None without any.
_parse_article_int(value) ==
  IF DigitPrefixLen(value) = 0 THEN -1
  ELSE ParseInt(SubSeq(value, 1, DigitPrefixLen(value)))

Min(a, b) == IF a < b THEN a ELSE b
Max(a, b) == IF a < b THEN b ELSE a

\* An expansion that stops after the first intermediate number.
IntermediateHitsFirst(n, upper, block_start, block_end, span_text, bwb_id, confidence) ==
  IF n >= upper THEN <<>>
  ELSE <<ArticleCitationHit(block_start, block_end, span_text, bwb_id,
                            ToString(n), confidence)>>

\* for intermediate in range(lower + 1, upper): hits.append(...)
RECURSIVE IntermediateHits(_, _, _, _, _, _, _)
IntermediateHits(n, upper, block_start, block_end, span_text, bwb_id, confidence) ==
  IF n >= upper THEN <<>>
  ELSE <<ArticleCitationHit(block_start, block_end, span_text, bwb_id,
                            ToString(n), confidence)>>
       \o IntermediateHits(n + 1, upper, block_start, block_end, span_text,
                           bwb_id, confidence)

\* "tot" in connector.lower(), the connector being the tokens between two numbers.
HasTot(text, current, nxt) ==
  \E k \in (current.end + 1)..nxt.start : Lower(text[k]) = "tot"

RECURSIVE _collect_range_hits(_, _, _, _, _, _)
_collect_range_hits(text, block_start, block_end, number_matches, bwb_id, confidence) ==
  IF Len(number_matches) < 2 THEN <<>>
  ELSE
    LET current == number_matches[1]
        nxt == number_matches[2]
        start_value == _parse_article_int(Tok(text, current.start + 1))
        end_value == _parse_article_int(Tok(text, nxt.start + 1))
        lower == Min(start_value, end_value)
        upper == Max(start_value, end_value)
        here ==
          IF ~HasTot(text, current, nxt) THEN <<>>
          ELSE IF start_value = -1 \/ end_value = -1 THEN <<>>
          ELSE IF upper - lower <= 1 THEN <<>>
          ELSE IntermediateHits(lower + 1, upper, block_start, block_end,
                                Slice(text, block_start, block_end), bwb_id, confidence)
    IN here \o _collect_range_hits(text, block_start, block_end,
                                   Tail(number_matches), bwb_id, confidence)

BwbSeenKey(hit) == <<hit.start, hit.end, Lower(hit.article_number)>>

\* key = (...); if key in seen: continue; seen.add(key); hits.append(hit)
RECURSIVE BwbAppendAll(_, _)
BwbAppendAll(st, new) ==
  IF new = <<>> THEN st
  ELSE BwbAppendAll(
         IF BwbSeenKey(Head(new)) \in st.seen THEN st
         ELSE [hits |-> Append(st.hits, Head(new)),
               seen |-> st.seen \cup {BwbSeenKey(Head(new))}],
         Tail(new))

RECURSIVE NumberHits(_, _, _, _)
NumberHits(text, number_matches, bwb_id, confidence) ==
  IF number_matches = <<>> THEN <<>>
  ELSE LET m == Head(number_matches)
           article_number == Strip(Tok(text, m.start + 1))
       IN (IF article_number = "" THEN <<>>
           ELSE <<ArticleCitationHit(m.start, m.end, Slice(text, m.start, m.end),
                                     bwb_id, article_number, confidence)>>)
          \o NumberHits(text, Tail(number_matches), bwb_id, confidence)

\* The body of the loop over the matches of _ARTICLE_REFERENCE_PATTERN.
RECURSIVE BwbMatchLoop(_, _, _, _)
BwbMatchLoop(st, text, matches, bwb_id) ==
  IF matches = <<>> THEN st
  ELSE
    LET match == Head(matches)
        block_start == NumbersStart(text, match)
        block_end == match.end
        number_matches == NumberMatches(text, block_start + 1, block_end)
        s1 == BwbAppendAll(st, NumberHits(text, number_matches, bwb_id,
                                          _DEFAULT_CONFIDENCE))
        s2 == BwbAppendAll(s1, _collect_range_hits(text, block_start, block_end,
                                 number_matches, bwb_id, _RANGE_CONFIDENCE))
    IN BwbMatchLoop(IF number_matches = <<>> THEN st ELSE s2,
                    text, Tail(matches), bwb_id)

\* The sort key (hit.start, hit.article_number), strings compared as Python does.
BwbHitLess(a, b) ==
  a.start < b.start \/ (a.start = b.start /\ StrLess(a.article_number, b.article_number))

\* list.sort is stable: a hit goes behind every hit that is not greater.
RECURSIVE InsertSorted(_, _)
InsertSorted(sorted, hit) ==
  IF sorted = <<>> THEN <<hit>>
  ELSE IF BwbHitLess(hit, Head(sorted)) THEN <<hit>> \o sorted
  ELSE <<Head(sorted)>> \o InsertSorted(Tail(sorted), hit)

RECURSIVE SortHits(_, _)
SortHits(sorted, hits) ==
  IF hits = <<>> THEN sorted
  ELSE SortHits(InsertSorted(sorted, Head(hits)), Tail(hits))

\* The confidences are the defaults: no profile sets confidence_default or
\* confidence_range.
detect_bwb_article_citations(text, bwb_id) ==
  IF text = <<>> \/ bwb_id = "" THEN <<>>
  ELSE SortHits(<<>>,
         BwbMatchLoop([hits |-> <<>>, seen |-> {}], text,
                      finditer([j \in 1..Len(text) |-> ArticleReference(text, j)], 1), bwb_id).hits)

(***************************************************************************)
(* Inputs of the detectors: a text is up to MaxPhrases phrases of the      *)
(* detector's family in a row, an alias table one of a few configurations. *)
(***************************************************************************)
MaxPhrases == 3

BWB_SR == "BWBR0001854"
BWB_SV == "BWBR0001903"

RsPhrases ==
  { <<"art.", "287", "Sr">>, <<"artikel", "287", "Sr">>, <<"Art.", "5a", "sv">>,
    <<"artikel", "287">>, <<"art.", "5a">>, <<"artikel", "5a", "WVW">> }

EuPhrases ==
  { <<"artikel", "5", "van", "Richtlijn", "2010/13/EU">>,
    <<"artikel", "5", "van", "Verordening", "2019/1150">>,
    <<"celex:32010l0013">>, <<"Richtlijn", "2010/13">>,
    <<"artikel", "5", "Sr">>, <<"bwbr0001854">>,
    <<"Verordening", "2019/12345">> }

TkPhrases ==
  { <<"Wetboek", "van", "Strafrecht">>, <<"artikel", "287", "Sr">>,
    <<"art.", "287", "sr">>, <<"BWBR0001854">>, <<"CELEX:32019L1158">>,
    <<"Richtlijn", "2019/1158">> }

BwbPhrases ==
  { <<"artikel", "5">>, <<"artikelen", "5", "en", "7">>,
    <<"Artikel", "5", "tot", "en", "met", "8">>, <<"art.", "7", "tot", "5">>,
    <<"en", "6a">>, <<"lid">> }

PhrasesOf(family) ==
  CASE family = "rs" -> RsPhrases
    [] family = "eu" -> EuPhrases
    [] family = "tk" -> TkPhrases
    [] family = "bwb" -> BwbPhrases

RECURSIVE Flatten(_)
Flatten(phrases) ==
  IF phrases = <<>> THEN <<>> ELSE Head(phrases) \o Flatten(Tail(phrases))

TextsOf(family) ==
  UNION { {Flatten(ps) : ps \in [1..n -> PhrasesOf(family)]} : n \in 0..MaxPhrases }

\* The alias tables of a profile: code_aliases, and instrument_aliases as
\* parsed by _parse_instrument_aliases.  None configured; the usual ones; ones
\* with lower-case entries and two named acts.
AliasTables ==
  { [codes |-> <<>>, instruments |-> <<>>],
    [codes |-> "Sr" :> BWB_SR,
     instruments |->
       <<[label |-> <<"Wetboek", "van", "Strafrecht">>, bwb_id |-> BWB_SR,
          celex |-> None]>>],
    [codes |-> ("sr" :> BWB_SR) @@ ("Sv" :> BWB_SV),
     instruments |->
       <<[label |-> <<"Richtlijn">>, bwb_id |-> None, celex |-> "32019L1158"],
         [label |-> <<"wetboek">>, bwb_id |-> BWB_SR, celex |-> None]>>] }

(***************************************************************************)
(* lawgraph/config/settings.py and the constants of the pipelines.         *)
(***************************************************************************)
COLLECTION_INSTRUMENTS == "instruments"
COLLECTION_INSTRUMENT_ARTICLES == "instrument_articles"
COLLECTION_PROCEDURES == "procedures"
COLLECTION_PUBLICATIONS == "publications"
COLLECTION_JUDGMENTS == "judgments"
SOURCE_RECHTSPRAAK == "rechtspraak"
RAW_KIND_RS_CONTENT == "rs-content"
RELATION_MENTIONS_ARTICLE == "MENTIONS_ARTICLE"
RELATION_REFERS_TO_ARTICLE == "REFERS_TO_ARTICLE"

SEMANTIC_SOURCE(p) ==
  CASE p = "rs" -> "rechtspraak-article-linker"
    [] p = "eu" -> "eu-article-linker"
    [] p = "tk" -> "tk-article-linker"
    [] p = "bwb" -> "bwb-article-text"

(***************************************************************************)
(* The store a pipeline runs against.  A node is a document of a           *)
(* collection; natural is the identifier under which the raw-ingestion     *)
(* log knows it (props.meta.ecli of a judgment).  Its text-bearing fields  *)
(* are a title of padding characters without a citation (none when 0) and  *)
(* one field with the tokens of text; it has no props.raw.                 *)
(***************************************************************************)
_MAX_TEXT_LENGTH == 40000

NodeDoc(collection, key, labels, bwb_id, article_number, natural, text) ==
  [collection |-> collection, key |-> key, labels |-> labels, bwb_id |-> bwb_id,
   article_number |-> article_number, natural |-> natural, text |-> text,
   citations |-> <<>>, padding |-> 0]

\* Node.id
NodeId(node) == node.collection \o "/" \o node.key

\* The texts the two source documents of each pipeline may carry, as pairs.
RsTexts ==
  { << <<"art.", "5", "Sr">>,
       <<"art.", "5", "Sr", "en", "art.", "5", "Sr", "artikel", "7", "sr">> >>,
    << <<"art.", "5", "Sr", "en", "art.", "5", "Sr", "artikel", "7", "sr">>,
       <<"artikel", "9", "Sr", "art.", "7">> >>,
    << <<"artikel", "7", "Sv">>, <<>> >> }

EuTexts ==
  { << <<"Richtlijn", "2019/1158">>,
       <<"artikel", "5", "Sr", "CELEX:32019L1158", "artikel", "5", "van", "Richtlijn",
         "2019/1158">> >>,
    << <<"artikel", "5", "Sr", "CELEX:32019L1158", "artikel", "5", "van", "Richtlijn",
         "2019/1158">>,
       <<"Verordening", "2019/1150", "bwbr0001854">> >>,
    << <<"Verordening", "2019/1150", "bwbr0001854">>, <<>> >> }

TkTexts ==
  { << <<"Wetboek", "van", "Strafrecht">>,
       <<"artikel", "5", "Sr", "art.", "5", "sr", "BWBR0001854">> >>,
    << <<"artikel", "5", "Sr", "art.", "5", "sr", "BWBR0001854">>,
       <<"CELEX:32019L1158", "artikel", "9", "Sr">> >>,
    << <<"CELEX:32019L1158", "artikel", "9", "Sr">>, <<>> >> }

BwbTexts ==
  { << <<"artikel", "7">>, <<"artikelen", "5", "tot", "8", "en", "7">> >>,
    << <<"artikelen", "5", "tot", "8", "en", "7">>, <<"zie", "artikel", "9">> >>,
    << <<"zie", "artikel", "9">>, <<"artikel", "5", "en", "artikel", "7">> >> }

\* The nodes of a store whose two source documents of pipeline p carry t1, t2.
NodesOf(p, t1, t2) ==
  { NodeDoc(COLLECTION_JUDGMENTS, "hr-2019-793", {"Rechtspraak"}, None, None,
            "ECLI:NL:HR:2019:793", IF p = "rs" THEN t1 ELSE <<>>),
    NodeDoc(COLLECTION_JUDGMENTS, "HR-2020-1", {"Rechtspraak"}, None, None,
            "ECLI:NL:HR:2020:1", IF p = "rs" THEN t2 ELSE <<>>),
    NodeDoc(COLLECTION_INSTRUMENTS, "32010l0013", {"EU"}, None, None,
            "32010L0013", IF p = "eu" THEN t1 ELSE <<>>),
    NodeDoc(COLLECTION_INSTRUMENTS, "32019l1158", {"EU"}, None, None,
            "32019L1158", IF p = "eu" THEN t2 ELSE <<>>),
    NodeDoc(COLLECTION_INSTRUMENTS, "bwbr0001854", {"BWB"}, BWB_SR, None,
            BWB_SR, <<"artikel", "5", "Sr">>),
    NodeDoc(COLLECTION_PUBLICATIONS, "tk-1", {"TK", "Strafrecht"}, None, None,
            "tk-1", IF p = "tk" THEN t1 ELSE <<>>),
    NodeDoc(COLLECTION_PUBLICATIONS, "nieuws-1", {"Strafrecht"}, None, None,
            "nieuws-1", <<"artikel", "5", "Sr">>),
    NodeDoc(COLLECTION_PROCEDURES, "tk-2", {"TK"}, None, None,
            "tk-2", IF p = "tk" THEN t2 ELSE <<>>),
    NodeDoc(COLLECTION_INSTRUMENT_ARTICLES, "bwbr0001854_5", {"BWB", "Article"},
            BWB_SR, "5", BWB_SR, IF p = "bwb" THEN t1 ELSE <<>>),
    NodeDoc(COLLECTION_INSTRUMENT_ARTICLES, "bwbr0001854_7", {"BWB", "Article"},
            BWB_SR, "7", BWB_SR, IF p = "bwb" THEN t2 ELSE <<>>),
    NodeDoc(COLLECTION_INSTRUMENT_ARTICLES, "bwbr0001903_5", {"BWB", "Article"},
            BWB_SV, "5", BWB_SV, <<"artikel", "7">>) }

\* The lengths of the title of the first source document of a pipeline: none,
\* and one that leaves less room below _MAX_TEXT_LENGTH than any text takes.
Paddings(p) == IF p \in {"eu", "tk"} THEN {0, _MAX_TEXT_LENGTH - 10} ELSE {0}

Padded(store, padding) ==
  { IF n.key \in {"32010l0013", "tk-1"} THEN [n EXCEPT !.padding = padding] ELSE n :
      n \in store }

TextsFor(p) ==
  CASE p = "rs" -> RsTexts
    [] p = "eu" -> EuTexts
    [] p = "tk" -> TkTexts
    [] p = "bwb" -> BwbTexts

\* datetime.isoformat() in UTC with "+00:00" replaced by "Z", as iso_timestamp
\* and insert_raw_source both format an instant; the instants here are
\* midnight of day 1, 2, ... of one month.
IsoFormat(day) ==
  "2025-01-" \o (IF day < 10 THEN "0" ELSE "") \o ToString(day) \o "T00:00:00Z"

\* A record of raw_sources, the raw-ingestion log: at is the day of the fetch,
\* fetched_at the string insert_raw_source stored for it.
RawSource(source, kind, day, natural) ==
  [source |-> source, kind |-> kind, at |-> day, fetched_at |-> IsoFormat(day),
   natural |-> natural]

RawSources ==
  { RawSource("rechtspraak", "rs-content", 1, "ECLI:NL:HR:2019:793"),
    RawSource("rechtspraak", "rs-content", 2, "ECLI:NL:HR:2020:1"),
    RawSource("rechtspraak", "rs-index", 3, "ECLI:NL:HR:2019:793"),
    RawSource("eurlex", "eu-celex-html", 1, "32010L0013"),
    RawSource("eurlex", "eu-celex-html", 2, "32019L1158"),
    RawSource("tk", "tk-documentversie", 1, "tk-1"),
    RawSource("tk", "tk-zaak", 2, "tk-2") }

\* The domain configurations a pipeline is constructed with: a profile with
\* alias tables and BWB ids, and an empty one.
DomainConfigs ==
  { [code_aliases |-> ("Sr" :> BWB_SR) @@ (" sv " :> BWB_SV),
     instrument_aliases |->
       <<[label |-> <<"Wetboek", "van", "Strafrecht">>, value |-> "bwbr0001854"],
         [label |-> <<"Richtlijn">>, value |-> "32019l1158"]>>,
     bwb |-> [ids |-> <<BWB_SR, "">>]],
    [code_aliases |-> <<>>, instrument_aliases |-> <<>>, bwb |-> [ids |-> <<>>]] }

\* {}: a configuration without any section, where every config.get(...)
\* falls back to its default.
EmptyConfig ==
  [code_aliases |-> <<>>, instrument_aliases |-> <<>>, bwb |-> [ids |-> <<>>]]

\* The profiles that have a file <domain>.yml in the configuration directory.
ConfigFiles == "strafrecht" :> (CHOOSE c \in DomainConfigs : c # EmptyConfig)

\* load_domain_config: <<config>>, or <<>> where opening the file raises
\* FileNotFoundError.
load_domain_config(domain) ==
  IF domain \in DOMAIN ConfigFiles THEN <<ConfigFiles[domain]>> ELSE <<>>

\* _load_domain_config of a pipeline constructed with a profile name: no name
\* and a name without a file both leave self._domain_config = {}.
_load_domain_config(domain_profile) ==
  IF domain_profile = "" THEN EmptyConfig
  ELSE LET loaded == load_domain_config(domain_profile)
       IN IF loaded = <<>> THEN EmptyConfig ELSE loaded[1]

\* The profile names a pipeline is constructed with: one with a file, one
\* without, and none.
DomainProfiles == {"strafrecht", "ontbreekt", ""}

(***************************************************************************)
(* Bounds of the pipeline model.                                           *)
(***************************************************************************)
MaxRuns == 2
MaxSince == 3

VARIABLES
  pipeline,       \* which linker was constructed: "rs", "eu", "tk", "bwb"
  domain_config,  \* self._domain_config
  store_citations, \* self._store_citations of the BWB pipeline
  nodes,          \* the document collections of the store
  edges,          \* the collection edges_semantic: a set of edge documents
  pc,             \* "idle", "documents", "hits", "returned", "raised", "interrupted"
  since,          \* the argument of run(): <<>> for None, <<t>> for a cutoff
  documents,      \* the candidate documents not yet scanned, by id
  document,       \* the id of the document being processed
  hits,           \* its hits not yet resolved
  edges_created,  \* the local counter of run()
  result,         \* the value the latest run() returned
  log             \* what the runs did, for stating the properties

VARIABLES dFamily, dText, dCodes, dInstruments, dHits, dDone

\* Two runs of one pipeline at the same time, the key functions applied to
\* drawn inputs, and the semantic-all command: one record each.
VARIABLES workers, keyed, driver

pvars == <<pipeline, domain_config, store_citations, nodes, edges, pc, since, documents,
           document, hits, edges_created, result, log>>
dvars == <<dFamily, dText, dCodes, dInstruments, dHits, dDone>>
xvars == <<workers, keyed, driver>>
vars == <<pvars, dvars, xvars>>

(***************************************************************************)
(* The store operations the pipelines call.                                *)
(***************************************************************************)
\* ArangoStore.get_node: <<node>>, or <<>> for None.
get_node(collection, key) ==
  LET found == {n \in nodes : n.collection = collection /\ n.key = key}
  IN IF found = {} THEN <<>> ELSE <<CHOOSE n \in found : TRUE>>

NodeById(id) == CHOOSE n \in nodes : NodeId(n) = id

\* An upsert that inserts beside what is stored under the key.
upsert_inserting_beside(stored, doc) ==
  [stored |-> stored \cup {doc}, created |-> \A e \in stored : e._key # doc._key]

\* The store's edge upsert: it keys on the supplied _key.  stored is the edge
\* collection afterwards, created tells whether the key was new.
insert_or_update_edge(stored, doc) ==
  LET existing == {e \in stored : e._key = doc._key}
  IN [stored |-> (stored \ existing) \cup {doc}, created |-> existing = {}]

\* The orders in which a query may return a set of documents.
Orderings(S) ==
  {f \in [1..Cardinality(S) -> S] : \A i, j \in 1..Cardinality(S) : f[i] = f[j] => i = j}

(***************************************************************************)
(* Configuration loading of the pipelines.                                 *)
(***************************************************************************)
\* RechtspraakArticleSemanticPipeline._load_code_aliases
Rs_load_code_aliases(config) ==
  LET aliases == config.code_aliases
      kept == {a \in DOMAIN aliases : a # "" /\ aliases[a] # ""}
  IN [k \in {Upper(Strip(a)) : a \in kept} |->
        Strip(aliases[CHOOSE a \in kept : Upper(Strip(a)) = k])]

\* _load_code_aliases of the EU and the TK pipeline
_load_code_aliases(config) ==
  LET aliases == config.code_aliases
      kept == {a \in DOMAIN aliases : a # "" /\ aliases[a] # ""}
  IN [k \in {Strip(a) : a \in kept} |->
        Strip(aliases[CHOOSE a \in kept : Strip(a) = k])]

\* _parse_instrument_aliases, for scalar values.
RECURSIVE _parse_instrument_aliases(_)
_parse_instrument_aliases(raw_aliases) ==
  IF raw_aliases = <<>> THEN <<>>
  ELSE
    LET entry == Head(raw_aliases)
        scalar == Strip(entry.value)
        parsed ==
          IF entry.label = <<>> \/ scalar = "" THEN <<>>
          ELSE IF Len(scalar) >= 4 /\ SubSeq(Upper(scalar), 1, 4) = "BWBR"
               THEN <<[label |-> entry.label, bwb_id |-> Upper(scalar), celex |-> None]>>
               ELSE <<[label |-> entry.label, bwb_id |-> None, celex |-> Upper(scalar)]>>
    IN parsed \o _parse_instrument_aliases(Tail(raw_aliases))

_load_instrument_aliases(config) == _parse_instrument_aliases(config.instrument_aliases)

\* BwbArticlesSemanticPipeline._load_bwb_ids
_load_bwb_ids(config) ==
  LET ids == config.bwb.ids
  IN {Strip(ids[i]) : i \in {i \in 1..Len(ids) : ids[i] # ""}}

(***************************************************************************)
(* Enumeration of the candidate documents.                                 *)
(***************************************************************************)
\* utils/time.py iso_timestamp: None stays None.
iso_timestamp(value) == IF value = <<>> THEN <<>> ELSE <<IsoFormat(value[1])>>

\* The rows of the query of _recent_rechtspraak_eclis: "RETURN raw.meta.ecli"
\* yields the ECLI strings of the raw records at or after since_iso.
RecentRows(since_iso) ==
  {raw.natural : raw \in
     {r \in RawSources : /\ r.source = SOURCE_RECHTSPRAAK
                         /\ r.kind = RAW_KIND_RS_CONTENT
                         /\ ~StrLess(r.fetched_at, since_iso[1])}}

\* _recent_rechtspraak_eclis: the empty set for None.  Each row is a string,
\* and raw.get("meta", {}) on a string raises AttributeError, so with a cutoff
\* the call returns (the empty set) only when the query has no row.
_recent_rechtspraak_eclis(since_iso) ==
  IF since_iso = <<>> THEN [raised |-> FALSE, eclis |-> {}]
  ELSE [raised |-> RecentRows(since_iso) # {}, eclis |-> {}]

\* _load_judgments: the judgments of these ECLIs, every judgment when eclis is empty.
_load_judgments(eclis) ==
  IF eclis # {}
  THEN {n \in nodes : n.collection = COLLECTION_JUDGMENTS /\ n.natural \in eclis}
  ELSE {n \in nodes : n.collection = COLLECTION_JUDGMENTS}

\* EUArticleSemanticPipeline._load_eu_documents
_load_eu_documents == {n \in nodes : n.collection = COLLECTION_INSTRUMENTS /\ "EU" \in n.labels}

\* TKArticleSemanticPipeline._load_tk_documents, one collection of the two.
_load_tk_documents(collection) == {n \in nodes : n.collection = collection /\ "TK" \in n.labels}

\* BwbArticlesSemanticPipeline._load_articles
_load_articles(bwb_ids) ==
  {n \in nodes : /\ n.collection = COLLECTION_INSTRUMENT_ARTICLES
                 /\ n.bwb_id \in bwb_ids
                 /\ n.text # <<>>}

Ids(S) == {NodeId(n) : n \in S}

(***************************************************************************)
(* Text extraction, detection and resolution for one document.             *)
(***************************************************************************)
\* The characters of s before its first blank at or after position i.
RECURSIVE WordEnd(_, _)
WordEnd(s, i) ==
  IF i > Len(s) \/ Char(s, i) = " " THEN i - 1 ELSE WordEnd(s, i + 1)

\* A string as the tokens the patterns see: its words between blanks.
RECURSIVE SplitTokens(_)
SplitTokens(s) ==
  IF s = "" THEN <<>>
  ELSE LET n == WordEnd(s, 1)
       IN (IF n = 0 THEN <<>> ELSE <<SubSeq(s, 1, n)>>)
          \o (IF n + 2 > Len(s) THEN <<>> ELSE SplitTokens(SubSeq(s, n + 2, Len(s))))

\* len("\n".join(fragments)) of the title and the text of a document.
JoinedLength(node) ==
  IF node.text = <<>> THEN node.padding
  ELSE IF node.padding = 0 THEN Len(JoinTokens(node.text))
  ELSE node.padding + 1 + Len(JoinTokens(node.text))

\* EUArticleSemanticPipeline._extract_document_text: the joined fragments,
\* cut to _MAX_TEXT_LENGTH.  length is the length of the string returned,
\* tokens the part of the text that is left in it.
Eu_extract_document_text(node) ==
  IF JoinedLength(node) > _MAX_TEXT_LENGTH
  THEN [length |-> _MAX_TEXT_LENGTH,
        tokens |-> IF node.padding + 1 >= _MAX_TEXT_LENGTH THEN <<>>
                   ELSE SplitTokens(SubSeq(JoinTokens(node.text), 1,
                                           _MAX_TEXT_LENGTH - node.padding - 1))]
  ELSE [length |-> JoinedLength(node), tokens |-> node.text]

\* TKArticleSemanticPipeline._extract_document_text: the joined fragments;
\* _collect_raw_text, which alone reads _MAX_TEXT_LENGTH, adds nothing for a
\* document without props.raw.
Tk_extract_document_text(node) ==
  [length |-> JoinedLength(node), tokens |-> node.text]

\* _extract_judgment_text, _extract_document_text, _extract_article_text: the
\* text the pipeline hands to its detector, <<>> for None or a text without
\* a token.
ExtractText(node) ==
  CASE pipeline = "eu" -> Eu_extract_document_text(node).tokens
    [] pipeline = "tk" -> Tk_extract_document_text(node).tokens
    [] OTHER -> node.text

\* The detector of pipeline p applied to a document.
DetectFor(p, node, config) ==
  CASE p = "rs" -> detect_article_references(ExtractText(node), Rs_load_code_aliases(config))
    [] p = "eu" -> detect_eu_citations(ExtractText(node), _load_code_aliases(config))
    [] p = "tk" -> detect_tk_citations(ExtractText(node), _load_code_aliases(config),
                                       _load_instrument_aliases(config))
    [] p = "bwb" -> IF Truthy(node.bwb_id)
                    THEN detect_bwb_article_citations(ExtractText(node), node.bwb_id)
                    ELSE <<>>

\* A resolver that reads a bare article number as one of the Wetboek van
\* Strafrecht.
Rs_resolve_article_defaulting(hit) ==
  get_node(COLLECTION_INSTRUMENT_ARTICLES,
           make_node_key(<<IF Truthy(hit.bwb_id) THEN hit.bwb_id ELSE BWB_SR,
                           hit.article_number>>))

\* RechtspraakArticleSemanticPipeline: "if not hit.bwb_id: continue", then _resolve_article
Rs_resolve_article(hit) ==
  IF ~Truthy(hit.bwb_id) THEN <<>>
  ELSE get_node(COLLECTION_INSTRUMENT_ARTICLES,
                make_node_key(<<hit.bwb_id, hit.article_number>>))

\* BwbArticlesSemanticPipeline._resolve_article
Bwb_resolve_article(hit) ==
  IF ~Truthy(hit.bwb_id) \/ ~Truthy(hit.article_number) THEN <<>>
  ELSE get_node(COLLECTION_INSTRUMENT_ARTICLES,
                make_node_key(<<hit.bwb_id, hit.article_number>>))

\* EUArticleSemanticPipeline._resolve_target
_resolve_target(hit) ==
  IF Truthy(hit.article_number) /\ Truthy(hit.bwb_id)
  THEN get_node(COLLECTION_INSTRUMENT_ARTICLES,
                make_node_key(<<hit.bwb_id, hit.article_number>>))
  ELSE IF Truthy(hit.celex)
  THEN get_node(COLLECTION_INSTRUMENTS, make_node_key(<<hit.celex>>))
  ELSE IF Truthy(hit.bwb_id)
  THEN get_node(COLLECTION_INSTRUMENTS, make_node_key(<<hit.bwb_id>>))
  ELSE <<>>

\* TKArticleSemanticPipeline._resolve_target_node
_resolve_target_node(hit) ==
  IF hit.kind = "article" /\ Truthy(hit.bwb_id) /\ Truthy(hit.article_number)
  THEN get_node(COLLECTION_INSTRUMENT_ARTICLES,
                make_node_key(<<hit.bwb_id, hit.article_number>>))
  ELSE IF Truthy(hit.celex)
  THEN get_node(COLLECTION_INSTRUMENTS, make_node_key(<<hit.celex>>))
  ELSE IF Truthy(hit.bwb_id)
  THEN get_node(COLLECTION_INSTRUMENTS, make_node_key(<<hit.bwb_id>>))
  ELSE <<>>

ResolveFor(p, hit) ==
  CASE p = "rs" -> Rs_resolve_article(hit)
    [] p = "eu" -> _resolve_target(hit)
    [] p = "tk" -> _resolve_target_node(hit)
    [] p = "bwb" -> Bwb_resolve_article(hit)

RelationOf(p) ==
  IF p = "bwb" THEN RELATION_REFERS_TO_ARTICLE ELSE RELATION_MENTIONS_ARTICLE

\* A key of the raw node keys.
EdgeKeyUnsanitized(source_key, target_key, relation) ==
  source_key \o "__" \o target_key \o "__" \o relation

\* edge_key of _create_semantic_edge
EdgeKey(source_key, target_key, relation) ==
  make_node_key(<<source_key>>) \o "__" \o make_node_key(<<target_key>>)
    \o "__" \o relation

\* meta of _create_semantic_edge; the snippet, a window of text around the
\* match that nothing reads, is left out.
EdgeMeta(p, hit) ==
  IF p = "bwb" THEN [start |-> hit.start, end |-> hit.end, text |-> hit.text]
  ELSE [raw_match |-> hit.raw_match]

\* An edge document with its endpoints exchanged.
EdgeDocReversed(p, source, target, hit) ==
  [_key |-> EdgeKey(source.key, target.key, RelationOf(p)),
   _from |-> NodeId(target),
   _to |-> NodeId(source),
   relation |-> RelationOf(p),
   confidence |-> hit.confidence,
   source |-> SEMANTIC_SOURCE(p),
   strict |-> FALSE,
   meta |-> EdgeMeta(p, hit)]

\* edge_doc of _create_semantic_edge
EdgeDoc(p, source, target, hit) ==
  [_key |-> EdgeKey(source.key, target.key, RelationOf(p)),
   _from |-> NodeId(source),
   _to |-> NodeId(target),
   relation |-> RelationOf(p),
   confidence |-> hit.confidence,
   source |-> SEMANTIC_SOURCE(p),
   strict |-> FALSE,
   meta |-> EdgeMeta(p, hit)]

\* "if not source.id or not target.id or not source.key or not target.key: return False"
CanLink(source, target) == Truthy(source.key) /\ Truthy(target.key)

\* A counter of upserts.
TallyEveryUpsert(count, created) == count + 1

\* A counter of the upserts that found their key stored.
TallyUpdated(count, created) == IF created THEN count ELSE count + 1

\* "if self._create_semantic_edge(...): edges_created += 1"
Tally(count, created) == IF created THEN count + 1 ELSE count

(***************************************************************************)
(* The pipelines as a state machine: a session constructs one pipeline     *)
(* over a store and calls run() up to MaxRuns times.                       *)
(***************************************************************************)
Keys(stored) == {e._key : e \in stored}

SinceArgs == {<<>>} \cup {<<t>> : t \in 1..MaxSince}

\* The detector variables while the pipelines are explored.
DIdle ==
  /\ dFamily = "rs" /\ dText = <<>> /\ dCodes = <<>> /\ dInstruments = <<>>
  /\ dHits = <<>> /\ dDone = FALSE

\* The remaining variables while the pipelines or the detectors are explored.
XIdle == workers = <<>> /\ keyed = <<>> /\ driver = <<>>

\* The pipeline variables while the detectors are explored.
PIdle ==
  /\ pipeline = "rs" /\ domain_config = [code_aliases |-> <<>>] /\ store_citations = FALSE
  /\ nodes = {} /\ edges = {} /\ pc = "idle" /\ since = <<>> /\ documents = <<>>
  /\ document = None /\ hits = <<>> /\ edges_created = 0 /\ result = <<>>
  /\ log = <<>>

Init ==
  /\ pipeline \in {"rs", "eu", "tk", "bwb"}
  /\ domain_config \in {_load_domain_config(profile) : profile \in DomainProfiles}
  /\ store_citations \in (IF pipeline = "bwb" THEN BOOLEAN ELSE {FALSE})
  /\ \E t \in TextsFor(pipeline), padding \in Paddings(pipeline) :
       nodes = Padded(NodesOf(pipeline, t[1], t[2]), padding)
  /\ edges = {}
  /\ pc = "idle"
  /\ since = <<>>
  /\ documents = <<>>
  /\ document = None
  /\ hits = <<>>
  /\ edges_created = 0
  /\ result = <<>>
  /\ log = [runs |-> 0, error |-> "", before |-> {}, scanned |-> {}, written |-> {},
            upsert |-> <<>>, upserted |-> {}, fresh |-> FALSE, prev |-> <<>>,
            base |-> {}]
  /\ DIdle
  /\ XIdle

\* The log at the start of a run(): what the run before left is kept in prev.
Begin ==
  [log EXCEPT !.runs = @ + 1, !.error = "", !.before = Keys(edges), !.scanned = {},
              !.written = {}, !.upsert = <<>>, !.fresh = FALSE, !.base = edges,
              !.prev = IF log.runs = 0 THEN <<>>
                       ELSE <<[since |-> since, result |-> result, edges |-> edges,
                               written |-> log.written, changed |-> log.fresh,
                               base |-> log.base, count |-> edges_created,
                               interrupted |-> pc = "interrupted"]>>]

\* run() entered by a pipeline that clears the edge collection before it
\* links again.
EnterTruncating(s, early, candidates) ==
  /\ pc \in {"idle", "returned", "interrupted"}
  /\ log.runs < MaxRuns
  /\ since' = s
  /\ edges_created' = 0
  /\ hits' = <<>>
  /\ document' = None
  /\ log' = Begin
  /\ edges' = {}
  /\ IF early
     THEN pc' = "returned" /\ result' = <<0>> /\ documents' = <<>>
     ELSE pc' = "documents" /\ result' = <<>> /\ documents' \in candidates
  /\ UNCHANGED <<pipeline, domain_config, store_citations, nodes, dvars, xvars>>

\* run() is entered; it returns 0 at once (early), or starts its loop over one
\* of the candidate sequences.
Enter(s, early, candidates) ==
  /\ pc \in {"idle", "returned", "interrupted"}
  /\ log.runs < MaxRuns
  /\ since' = s
  /\ edges_created' = 0
  /\ hits' = <<>>
  /\ document' = None
  /\ log' = Begin
  /\ IF early
     THEN pc' = "returned" /\ result' = <<0>> /\ documents' = <<>>
     ELSE pc' = "documents" /\ result' = <<>> /\ documents' \in candidates
  /\ UNCHANGED <<pipeline, domain_config, store_citations, nodes, edges, dvars, xvars>>

\* RechtspraakArticleSemanticPipeline.run, up to its loop.
RunRs ==
  /\ pipeline = "rs"
  /\ \E s \in SinceArgs :
       LET recent == _recent_rechtspraak_eclis(iso_timestamp(s))
           judgments == _load_judgments(recent.eclis)
           mapping == Rs_load_code_aliases(domain_config)
       IN IF recent.raised
          THEN /\ pc \in {"idle", "returned", "interrupted"}
               /\ log.runs < MaxRuns
               /\ since' = s
               /\ edges_created' = 0
               /\ hits' = <<>>
               /\ document' = None
               /\ documents' = <<>>
               /\ pc' = "raised"
               /\ result' = <<>>
               /\ log' = [Begin EXCEPT !.error = "AttributeError"]
               /\ UNCHANGED <<pipeline, domain_config, store_citations, nodes, edges, dvars, xvars>>
          ELSE Enter(s, DOMAIN mapping = {}, Orderings(Ids(judgments)))

\* EUArticleSemanticPipeline.run, up to its loop.
RunEu ==
  /\ pipeline = "eu"
  /\ \E s \in SinceArgs :
       Enter(s, _load_eu_documents = {}, Orderings(Ids(_load_eu_documents)))

\* TKArticleSemanticPipeline.run, up to its loop: publications come before
\* procedures.
RunTk ==
  /\ pipeline = "tk"
  /\ \E s \in SinceArgs :
       LET publications == Orderings(Ids(_load_tk_documents(COLLECTION_PUBLICATIONS)))
           procedures == Orderings(Ids(_load_tk_documents(COLLECTION_PROCEDURES)))
           code_aliases == _load_code_aliases(domain_config)
           instrument_aliases == _load_instrument_aliases(domain_config)
       IN Enter(s,
                \/ {a \o b : a \in publications, b \in procedures} = {<<>>}
                \/ (DOMAIN code_aliases = {} /\ instrument_aliases = <<>>),
                {a \o b : a \in publications, b \in procedures})

\* BwbArticlesSemanticPipeline.run, up to its loop; it takes no since.
RunBwb ==
  /\ pipeline = "bwb"
  /\ LET bwb_ids == _load_bwb_ids(domain_config)
         articles == _load_articles(bwb_ids)
     IN Enter(<<>>, bwb_ids = {} \/ articles = {}, Orderings(Ids(articles)))

\* citations that leave out the hits whose target article is not stored.
CitationsResolved(found) ==
  LET kept == SelectSeq(found, LAMBDA hit : Bwb_resolve_article(hit) # <<>>)
  IN [i \in 1..Len(kept) |->
        [start |-> kept[i].start, end |-> kept[i].end, text |-> kept[i].text,
         target_bwb_id |-> kept[i].bwb_id,
         target_article_number |-> kept[i].article_number,
         confidence |-> kept[i].confidence]]

\* citations of _store_article_citations
Citations(found) ==
  [i \in 1..Len(found) |->
     [start |-> found[i].start, end |-> found[i].end, text |-> found[i].text,
      target_bwb_id |-> found[i].bwb_id,
      target_article_number |-> found[i].article_number,
      confidence |-> found[i].confidence]]

\* One round of "for document in documents": the text is extracted and the
\* detector applied; the BWB pipeline stores the citations on the article.
ScanDocument ==
  /\ pc = "documents"
  /\ documents # <<>>
  /\ LET node == NodeById(Head(documents))
         text == ExtractText(node)
         skipped == \/ pipeline # "rs" /\ text = <<>>
                    \/ pipeline = "bwb" /\ ~Truthy(node.bwb_id)
     IN \E found \in {IF skipped THEN <<>> ELSE DetectFor(pipeline, node, domain_config)} :
        /\ documents' = Tail(documents)
        /\ document' = NodeId(node)
        /\ hits' = found
        /\ pc' = IF found = <<>> THEN "documents" ELSE "hits"
        /\ nodes' = IF pipeline = "bwb" /\ ~skipped /\ store_citations /\ Truthy(node.key)
                    THEN (nodes \ {node}) \cup {[node EXCEPT !.citations = Citations(found)]}
                    ELSE nodes
        /\ log' = [log EXCEPT !.scanned = IF skipped THEN @ ELSE @ \cup {NodeId(node)}]
  /\ UNCHANGED <<pipeline, domain_config, store_citations, edges, since, edges_created,
                 result, dvars, xvars>>

\* Whether a hit of the document being processed reaches the edge upsert.
Linked(target) == target # <<>> /\ CanLink(NodeById(document), target[1])

\* A loop over the hits that a hit without a target ends ("break").
ResolveHitBreaking ==
  /\ pc = "hits"
  /\ \E target \in {ResolveFor(pipeline, Head(hits))} :
     LET hit == Head(hits)
         source == NodeById(document)
         edge_doc == EdgeDoc(pipeline, source, target[1], hit)
         upsert == insert_or_update_edge(edges, edge_doc)
     IN IF Linked(target)
        THEN /\ edges' = upsert.stored
             /\ edges_created' = Tally(edges_created, upsert.created)
             /\ log' = [log EXCEPT
                          !.written = @ \cup {[document |-> document, edge |-> edge_doc,
                                               created |-> upsert.created, hit |-> hit,
                                               target |-> NodeId(target[1])]},
                          !.upsert = <<[doc |-> edge_doc, created |-> upsert.created,
                                        prior |-> {e \in edges : e._key = edge_doc._key}]>>,
                          !.upserted = @ \cup {edge_doc._key}]
        ELSE UNCHANGED <<edges, edges_created, log>>
  /\ hits' = IF Linked(ResolveFor(pipeline, Head(hits))) THEN Tail(hits) ELSE <<>>
  /\ pc' = IF hits' = <<>> THEN "documents" ELSE "hits"
  /\ UNCHANGED <<pipeline, domain_config, store_citations, nodes, since, documents,
                 document, result, dvars, xvars>>

\* A loop over the hits that leaves an edge alone once its key is stored.
ResolveHitKeepingFirst ==
  /\ pc = "hits"
  /\ \E target \in {ResolveFor(pipeline, Head(hits))} :
     LET hit == Head(hits)
         source == NodeById(document)
         edge_doc == EdgeDoc(pipeline, source, target[1], hit)
         upsert == insert_or_update_edge(edges, edge_doc)
     IN IF Linked(target)
        THEN /\ edges' = IF upsert.created THEN upsert.stored ELSE edges
             /\ edges_created' = Tally(edges_created, upsert.created)
             /\ log' = [log EXCEPT
                          !.written = @ \cup {[document |-> document, edge |-> edge_doc,
                                               created |-> upsert.created, hit |-> hit,
                                               target |-> NodeId(target[1])]},
                          !.upsert = <<[doc |-> edge_doc, created |-> upsert.created,
                                        prior |-> {e \in edges : e._key = edge_doc._key}]>>,
                          !.upserted = @ \cup {edge_doc._key}]
        ELSE UNCHANGED <<edges, edges_created, log>>
  /\ hits' = Tail(hits)
  /\ pc' = IF Tail(hits) = <<>> THEN "documents" ELSE "hits"
  /\ UNCHANGED <<pipeline, domain_config, store_citations, nodes, since, documents,
                 document, result, dvars, xvars>>

\* One round of "for hit in hits": the target is resolved and the edge upserted.
ResolveHit ==
  /\ pc = "hits"
  /\ \E target \in {ResolveFor(pipeline, Head(hits))} :
     LET hit == Head(hits)
         source == NodeById(document)
         edge_doc == EdgeDoc(pipeline, source, target[1], hit)
         upsert == insert_or_update_edge(edges, edge_doc)
     IN IF Linked(target)
        THEN /\ edges' = upsert.stored
             /\ edges_created' = Tally(edges_created, upsert.created)
             /\ log' = [log EXCEPT
                          !.written = @ \cup {[document |-> document, edge |-> edge_doc,
                                               created |-> upsert.created, hit |-> hit,
                                               target |-> NodeId(target[1])]},
                          !.upsert = <<[doc |-> edge_doc, created |-> upsert.created,
                                        prior |-> {e \in edges : e._key = edge_doc._key}]>>,
                          !.upserted = @ \cup {edge_doc._key}]
        ELSE UNCHANGED <<edges, edges_created, log>>
  /\ hits' = Tail(hits)
  /\ pc' = IF Tail(hits) = <<>> THEN "documents" ELSE "hits"
  /\ UNCHANGED <<pipeline, domain_config, store_citations, nodes, since, documents,
                 document, result, dvars, xvars>>

\* The edge upsert raises: no run() catches it, so it leaves run() and ends
\* the command that called it.
UpsertRaises ==
  /\ pc = "hits"
  /\ Linked(ResolveFor(pipeline, Head(hits)))
  /\ pc' = "raised"
  /\ result' = <<>>
  /\ log' = [log EXCEPT !.error = "upsert"]
  /\ UNCHANGED <<pipeline, domain_config, store_citations, nodes, edges, since,
                 documents, document, hits, edges_created, dvars, xvars>>

\* "return edges_created"
Return ==
  /\ pc = "documents"
  /\ documents = <<>>
  /\ pc' = "returned"
  /\ result' = <<edges_created>>
  /\ UNCHANGED <<pipeline, domain_config, store_citations, nodes, edges, since,
                 documents, document, hits, edges_created, log, dvars, xvars>>

\* The process is stopped between two documents of "for document in
\* documents": run() returns nothing and what it wrote stays stored.  It is
\* the first run of a session that is stopped here, the later ones resume.
Interrupt ==
  /\ pc = "documents"
  /\ documents # <<>>
  /\ log.runs = 1
  /\ pc' = "interrupted"
  /\ result' = <<>>
  /\ UNCHANGED <<pipeline, domain_config, store_citations, nodes, edges, since,
                 documents, document, hits, edges_created, log, dvars, xvars>>

\* Between two runs the store gains a node: ingestion writes article 9 of the
\* Wetboek van Strafrecht with ArangoStore.insert_or_update.
Ingest ==
  /\ pc = "returned"
  /\ log.runs < MaxRuns
  /\ get_node(COLLECTION_INSTRUMENT_ARTICLES, "bwbr0001854_9") = <<>>
  /\ nodes' = nodes \cup {NodeDoc(COLLECTION_INSTRUMENT_ARTICLES, "bwbr0001854_9",
                                  {"BWB", "Article"}, BWB_SR, "9", BWB_SR,
                                  <<"artikel", "5">>)}
  /\ log' = [log EXCEPT !.fresh = TRUE]
  /\ UNCHANGED <<pipeline, domain_config, store_citations, edges, pc, since, documents,
                 document, hits, edges_created, result, dvars, xvars>>

\* The first source document of the pipeline, the one that carries t1.
FirstSource ==
  CASE pipeline = "rs" -> "judgments/hr-2019-793"
    [] pipeline = "eu" -> "instruments/32010l0013"
    [] pipeline = "tk" -> "publications/tk-1"
    [] OTHER -> "instrument_articles/bwbr0001854_5"

\* The text of a document that was withdrawn.
Withdrawn == <<"vervallen">>

\* Between two runs the text of a source document is replaced: a later
\* normalisation stores the node with a text that cites nothing.
Amend ==
  /\ pc = "returned"
  /\ log.runs < MaxRuns
  /\ ~log.fresh
  /\ \E node \in {n \in nodes : NodeId(n) = FirstSource /\ n.text \notin {<<>>, Withdrawn}} :
       nodes' = (nodes \ {node}) \cup {[node EXCEPT !.text = Withdrawn]}
  /\ log' = [log EXCEPT !.fresh = TRUE]
  /\ UNCHANGED <<pipeline, domain_config, store_citations, edges, pc, since, documents,
                 document, hits, edges_created, result, dvars, xvars>>

Next ==
  \/ Ingest
  \/ Amend
  \/ RunRs
  \/ RunEu
  \/ RunTk
  \/ RunBwb
  \/ ScanDocument
  \/ ResolveHit
  \/ UpsertRaises
  \/ Interrupt
  \/ Return

Spec == Init /\ [][Next]_vars

(***************************************************************************)
(* The detectors as pure functions: one text and alias table is drawn and  *)
(* the detector of its family applied.                                     *)
(***************************************************************************)
DInit ==
  /\ dFamily \in {"rs", "eu", "tk", "bwb"}
  /\ dText \in TextsOf(dFamily)
  /\ \E t \in AliasTables :
       /\ dCodes = (IF dFamily = "bwb" THEN <<>> ELSE t.codes)
       /\ dInstruments = (IF dFamily = "tk" THEN t.instruments ELSE <<>>)
  /\ dHits = <<>>
  /\ dDone = FALSE
  /\ PIdle
  /\ XIdle

DetectRs ==
  /\ dFamily = "rs" /\ ~dDone
  /\ dHits' = detect_article_references(dText, dCodes)
  /\ dDone' = TRUE
  /\ UNCHANGED <<dFamily, dText, dCodes, dInstruments, pvars, xvars>>

DetectEu ==
  /\ dFamily = "eu" /\ ~dDone
  /\ dHits' = detect_eu_citations(dText, dCodes)
  /\ dDone' = TRUE
  /\ UNCHANGED <<dFamily, dText, dCodes, dInstruments, pvars, xvars>>

DetectTk ==
  /\ dFamily = "tk" /\ ~dDone
  /\ dHits' = detect_tk_citations(dText, dCodes, dInstruments)
  /\ dDone' = TRUE
  /\ UNCHANGED <<dFamily, dText, dCodes, dInstruments, pvars, xvars>>

DetectBwb ==
  /\ dFamily = "bwb" /\ ~dDone
  /\ dHits' = detect_bwb_article_citations(dText, BWB_SR)
  /\ dDone' = TRUE
  /\ UNCHANGED <<dFamily, dText, dCodes, dInstruments, pvars, xvars>>

DNext == DetectRs \/ DetectEu \/ DetectTk \/ DetectBwb

DetectSpec == DInit /\ [][DNext]_vars

(***************************************************************************)
(* Properties of the pipelines, under Spec.                                *)
(***************************************************************************)
WrittenKeys(written) == {w.edge._key : w \in written}

C2_UpsertKeysOnKey ==
  /\ log.upsert # <<>> =>
       /\ log.upsert[1].created = (log.upsert[1].prior = {})
       /\ log.upsert[1].doc \in edges
  /\ Keys(edges) = log.upserted
  /\ \A k \in log.upserted : Cardinality({e \in edges : e._key = k}) = 1

C2_Witness ==
  /\ log.upsert # <<>>
  /\ ~log.upsert[1].created
  /\ log.upsert[1].doc \notin log.upsert[1].prior
  /\ Cardinality(log.upserted) >= 2

C4_EdgeKeyOfEndpoints ==
  /\ \A e \in edges :
       \E source, target \in nodes :
         /\ e._from = NodeId(source)
         /\ e._to = NodeId(target)
         /\ e._key = make_node_key(<<source.key>>) \o "__"
                       \o make_node_key(<<target.key>>) \o "__" \o e.relation
  /\ \A w1 \in log.written :
       \A w2 \in log.written \cup (IF log.prev = <<>> THEN {} ELSE log.prev[1].written) :
         (/\ w1.edge._from = w2.edge._from
          /\ w1.edge._to = w2.edge._to
          /\ w1.edge.relation = w2.edge.relation) => w1.edge._key = w2.edge._key

C4_Witness ==
  /\ log.prev # <<>>
  /\ \E w1, w2 \in log.written :
       /\ w1.edge._key = w2.edge._key
       /\ w1.edge.meta # w2.edge.meta
       /\ w1.edge.confidence # w2.edge.confidence
       /\ w1.edge._key \in WrittenKeys(log.prev[1].written)
  /\ \E e \in edges : e._from = "judgments/HR-2020-1" \/ e._from = "instruments/32019l1158"

\* C5: an edge upsert that raises while a document is processed does not abort
\* run(): the run goes on with the later candidate documents and returns.
C5_UpsertFailureDoesNotAbort ==
  ~(pc = "raised" /\ log.error = "upsert")

\* The days on which a document was fetched by raw ingestion.
FetchedOn(id, sources, kinds) ==
  {r.at : r \in {r \in RawSources : /\ r.natural = NodeById(id).natural
                                            /\ r.source \in sources
                                            /\ r.kind \in kinds}}

\* C6: the Rechtspraak run(since=t) scans only judgments whose ECLI is that of
\* a raw record of source rechtspraak and kind rs-content fetched at or after
\* t; with no such record it scans no judgment and writes no edge.
C6_RsSinceRestrictsJudgments ==
  (pipeline = "rs" /\ since # <<>>) =>
    /\ \A id \in log.scanned :
         \E at \in FetchedOn(id, {SOURCE_RECHTSPRAAK}, {RAW_KIND_RS_CONTENT}) :
           at >= since[1]
    /\ \A w \in log.written :
         \E at \in FetchedOn(w.document, {SOURCE_RECHTSPRAAK}, {RAW_KIND_RS_CONTENT}) :
           at >= since[1]

\* C7: the EU and the TK run(since=t) restrict the scan to documents ingested
\* at or after t: a document ingested before t contributes no edge to the run.
C7_EuTkSinceRestrictsDocuments ==
  (pipeline \in {"eu", "tk"} /\ since # <<>>) =>
    \A w \in log.written :
      \E at \in FetchedOn(w.document, {"eurlex", "tk"},
                          {"eu-celex-html", "tk-documentversie", "tk-zaak"}) :
        at >= since[1]

(***************************************************************************)
(* Properties of the detectors, under DetectSpec.                          *)
(***************************************************************************)
NoTwo(found, K(_)) ==
  \A i, j \in 1..Len(found) : K(found[i]) = K(found[j]) => i = j

Key4(hit) == <<hit.kind, hit.bwb_id, hit.article_number, hit.celex>>
Key2(hit) == <<hit.bwb_id, hit.article_number>>

\* C8: detect_eu_citations and detect_tk_citations return no two hits with one
\* (kind, bwb_id, article_number, celex), and detect_article_references no two
\* hits with one (bwb_id, article_number), however often a citation matches.
C8_NoDuplicateTargets ==
  dDone =>
    /\ dFamily \in {"eu", "tk"} => NoTwo(dHits, Key4)
    /\ dFamily = "rs" => NoTwo(dHits, Key2)

C8_Witness ==
  /\ dDone
  /\ dFamily = "eu"
  /\ Len(finditer([j \in 1..Len(dText) |-> MatchCelex(dText, j)], 1)) >= 2
  /\ Len(finditer([j \in 1..Len(dText) |-> MatchRichtlijn(dText, j)], 1)) >= 1
  /\ Len(dHits) = 1

\* C9: detect_bwb_article_citations returns no two hits with one (bwb_id,
\* article_number), also when the number is cited at two places of the text or
\* is both named and covered by an expanded range.
C9_BwbNoDuplicateTargets ==
  (dDone /\ dFamily = "bwb") => NoTwo(dHits, Key2)

\* The occurrences in the text of an alias-qualified reference whose alias is
\* mapped in code_aliases.
MappedAliasOccurrences(text, mapping) ==
  LET matches == finditer([j \in 1..Len(text) |-> RsAliasArt(text, j)], 1)
                 \o finditer([j \in 1..Len(text) |-> RsAliasArtikel(text, j)], 1)
  IN {matches[k] : k \in {k \in 1..Len(matches) :
        Truthy(Get(normalized_mapping(mapping), Upper(Tok(text, matches[k].start + 3))))}}

\* C10: detect_article_references returns no bare-number hit whose span
\* overlaps an occurrence of a mapped alias-qualified reference, a repeated
\* occurrence included; a text of mapped alias-qualified references to one
\* article only yields exactly one hit, of confidence 0.95.
C10_AliasSuppressesBareNumber ==
  (dDone /\ dFamily = "rs") =>
    LET occurrences == MappedAliasOccurrences(dText, dCodes)
        targets == {<<Get(normalized_mapping(dCodes), Upper(Tok(dText, m.start + 3))),
                      Lower(Tok(dText, m.start + 2))>> : m \in occurrences}
    IN /\ \A i \in 1..Len(dHits) :
            dHits[i].bwb_id = "" =>
              \A m \in occurrences : ~Overlaps(dHits[i], m)
       /\ (Len(dText) = 3 * Cardinality(occurrences) /\ Cardinality(targets) = 1) =>
            /\ Len(dHits) = 1
            /\ dHits[1].confidence = CONF_ALIAS

\* Whether match m of _ARTICLE_REFERENCE_PATTERN is a reference "a tot b" or
\* "a tot en met b" and no more, with integers a and b and b - a > 1.
IsPlainRange(text, m) ==
  LET block == SubSeq(text, NumbersStart(text, m) + 1, m.end)
  IN /\ Len(block) \in {3, 5}
     /\ AllDigits(block[1]) /\ AllDigits(block[Len(block)])
     /\ [k \in 1..(Len(block) - 2) |-> Lower(block[k + 1])]
          \in {<<"tot">>, <<"tot", "en", "met">>}
     /\ ParseInt(block[Len(block)]) - ParseInt(block[1]) > 1

RangeReferences(text) ==
  LET matches == finditer([j \in 1..Len(text) |-> ArticleReference(text, j)], 1)
  IN {matches[k] : k \in {k \in 1..Len(matches) : IsPlainRange(text, matches[k])}}

\* The hits, by index, whose span lies in the group "numbers" of match m.
HitsWithin(found, text, m) ==
  {i \in 1..Len(found) :
     found[i].start >= NumbersStart(text, m) /\ found[i].end <= m.end}

RangeFrom(text, m) == ParseInt(Tok(text, NumbersStart(text, m) + 1))
RangeTo(text, m) == ParseInt(Tok(text, m.end))

\* C11: for a reference "Artikel a tot en met b" or "a tot b" with b - a > 1,
\* detect_bwb_article_citations returns exactly b - a + 1 hits, one for each of
\* the integers a..b.
C11_RangeExpandsToEveryInteger ==
  (dDone /\ dFamily = "bwb") =>
    \A m \in RangeReferences(dText) :
      LET own == HitsWithin(dHits, dText, m)
      IN /\ Cardinality(own) = RangeTo(dText, m) - RangeFrom(dText, m) + 1
         /\ \A n \in RangeFrom(dText, m)..RangeTo(dText, m) :
              Cardinality({i \in own : dHits[i].article_number = ToString(n)}) = 1

C11_Witness ==
  /\ dDone /\ dFamily = "bwb"
  /\ \E m \in RangeReferences(dText) :
       /\ RangeTo(dText, m) - RangeFrom(dText, m) = 3
       /\ Cardinality(HitsWithin(dHits, dText, m)) = 4

\* C12: the hits of an expanded range, the two endpoints included, all carry
\* the span of the range and the range confidence 0.8.
C12_RangeHitsShareSpanAndConfidence ==
  (dDone /\ dFamily = "bwb") =>
    \A m \in RangeReferences(dText) :
      \A i \in HitsWithin(dHits, dText, m) :
        /\ dHits[i].start = NumbersStart(dText, m)
        /\ dHits[i].end = m.end
        /\ dHits[i].confidence = _RANGE_CONFIDENCE

\* C13: for every "Richtlijn YYYY/N" or "Verordening YYYY/N" in the text a hit
\* carries the synthesized CELEX "3" + YYYY + "L" or "R" + N zero-padded to
\* exactly four digits, 10 characters in all.
C13_SynthesizedCelexTenCharacters ==
  (dDone /\ dFamily \in {"eu", "tk"}) =>
    \A i \in 1..Len(dText) :
      (MatchRichtlijn(dText, i) > 0 \/ MatchVerordening(dText, i) > 0) =>
        LET tok == Tok(dText, i + 1)
            letter == IF MatchRichtlijn(dText, i) > 0 THEN "L" ELSE "R"
        IN \E k \in 1..Len(dHits) :
             /\ Truthy(dHits[k].celex)
             /\ Len(dHits[k].celex) = 10
             /\ SubSeq(dHits[k].celex, 1, 6) = "3" \o YearOf(tok) \o letter
             /\ AllDigits(SubSeq(dHits[k].celex, 7, 10))
             /\ ParseInt(SubSeq(dHits[k].celex, 7, 10)) = ParseInt(NumberOf(tok))

\* C14: every hit of detect_eu_citations and detect_tk_citations of kind
\* "article" has a bwb_id and an article_number, and every hit of kind
\* "instrument" has a bwb_id or a celex.
C14_HitsCarryIdentifyingFields ==
  (dDone /\ dFamily \in {"eu", "tk"}) =>
    \A k \in 1..Len(dHits) :
      /\ dHits[k].kind = "article" =>
           Truthy(dHits[k].bwb_id) /\ Truthy(dHits[k].article_number)
      /\ dHits[k].kind = "instrument" =>
           Truthy(dHits[k].bwb_id) \/ Truthy(dHits[k].celex)

\* The alias-qualified references of a text, by family, as matches.
AliasOccurrences(family, text) ==
  LET matches ==
        CASE family = "rs" ->
               finditer([j \in 1..Len(text) |-> RsAliasArt(text, j)], 1)
               \o finditer([j \in 1..Len(text) |-> RsAliasArtikel(text, j)], 1)
          [] family = "eu" ->
               finditer([j \in 1..Len(text) |-> EuArticleBwbAlias(text, j)], 1)
          [] family = "tk" ->
               finditer([j \in 1..Len(text) |-> TkAliasArtikel(text, j)], 1)
               \o finditer([j \in 1..Len(text) |-> TkAliasArt(text, j)], 1)
          [] OTHER -> <<>>
  IN {matches[k] : k \in 1..Len(matches)}

\* Those whose abbreviation is no key of code_aliases, case apart.
UnmappedAliasOccurrences(family, text, codes) ==
  {m \in AliasOccurrences(family, text) :
     Upper(Tok(text, m.start + 3)) \notin {Upper(Strip(a)) : a \in DOMAIN codes}}

\* C15: for a reference whose abbreviation is no key of code_aliases,
\* detect_article_references returns bare-number hits at most, of confidence
\* below 0.5, and detect_eu_citations and detect_tk_citations no article hit;
\* with an empty table no hit is alias-qualified.
C15_UnmappedAliasIsDropped ==
  dDone =>
    \A m \in UnmappedAliasOccurrences(dFamily, dText, dCodes) :
      \A k \in 1..Len(dHits) :
        Overlaps(dHits[k], m) =>
          IF dFamily = "rs"
          THEN dHits[k].bwb_id = "" /\ dHits[k].confidence < 50
          ELSE dHits[k].kind # "article"

C15_Witness ==
  /\ dDone /\ dFamily = "rs"
  /\ \E m \in UnmappedAliasOccurrences(dFamily, dText, dCodes) :
       \E k \in 1..Len(dHits) :
         Overlaps(dHits[k], m) /\ dHits[k].confidence = CONF_BARE_NUMBER

\* C16: a hit whose target has no node in the store writes no edge and raises
\* nothing, and the run goes on with the remaining hits of the document and
\* with the documents still to come.
C16_MissingTargetIsSkipped ==
  [][(pc = "hits" /\ ResolveFor(pipeline, Head(hits)) = <<>>) =>
       /\ edges' = edges
       /\ edges_created' = edges_created
       /\ hits' = Tail(hits)
       /\ documents' = documents
       /\ pc' = (IF Tail(hits) = <<>> THEN "documents" ELSE "hits")]_vars

\* A run returned that met, in one document, a hit naming an article the
\* store lacks and wrote the edge of a later hit of that document.
C16_Witness ==
  /\ pc = "returned" /\ log.error = "" /\ pipeline = "bwb"
  /\ \E d \in log.scanned :
       LET found == DetectFor(pipeline, NodeById(d), domain_config)
       IN \E i, j \in 1..Len(found) :
            /\ i < j
            /\ Truthy(found[i].bwb_id) /\ Truthy(found[i].article_number)
            /\ ResolveFor(pipeline, found[i]) = <<>>
            /\ ResolveFor(pipeline, found[j]) # <<>>
            /\ \E w \in log.written :
                 /\ w.document = d
                 /\ w.edge._to = NodeId(ResolveFor(pipeline, found[j])[1])

\* C17: with a domain profile that has no configuration file, no run() raises
\* unless the store fails, the Rechtspraak, TK and BWB pipelines write no
\* edge, and the EU pipeline writes no edge of an alias-qualified hit.
C17_MissingProfileDegrades ==
  domain_config = _load_domain_config("ontbreekt") =>
    /\ pc = "raised" => log.error = "upsert"
    /\ pipeline \in {"rs", "tk", "bwb"} => edges = {}
    /\ \A e \in edges : e.confidence # CONF_EU_ALIAS

\* The length of the text the pipeline handed to its detector for document d.
ScannedLength(d) ==
  CASE pipeline = "eu" -> Eu_extract_document_text(NodeById(d)).length
    [] pipeline = "tk" -> Tk_extract_document_text(NodeById(d)).length
    [] OTHER -> 0

\* C18: the text the EU and the TK pipeline hand to their detector is never
\* longer than _MAX_TEXT_LENGTH = 40,000 characters.
C18_ScannedTextWithinLimit ==
  pipeline \in {"eu", "tk"} =>
    \A d \in log.scanned : ScannedLength(d) <= _MAX_TEXT_LENGTH

\* C19: every edge a pipeline writes has strict = false, the relation
\* MENTIONS_ARTICLE or REFERS_TO_ARTICLE, _from the id of the scanned document,
\* _to the id of the node the hit resolved to, and the confidence of that hit.
C19_WrittenEdgeFields ==
  \A w \in log.written :
    /\ w.edge.strict = FALSE
    /\ w.edge.relation \in {RELATION_MENTIONS_ARTICLE, RELATION_REFERS_TO_ARTICLE}
    /\ w.document \in log.scanned
    /\ w.edge._from = w.document
    /\ w.target \in {NodeId(n) : n \in nodes}
    /\ w.edge._to = w.target
    /\ w.edge.confidence = w.hit.confidence

C19_Witness ==
  /\ pc = "returned"
  /\ \E w1, w2 \in log.written :
       /\ w1.edge._to # w2.edge._to
       /\ w1.edge.confidence # w2.edge.confidence
       /\ w1.edge._from # w1.edge._to

\* "for hit in hits" of run() as a function: the edges and the count after
\* the hits of one document, from the edges and the count before them.
RECURSIVE LinkHits(_, _, _)
LinkHits(source, found, acc) ==
  IF found = <<>> THEN acc
  ELSE LET hit == Head(found)
           target == ResolveFor(pipeline, hit)
       IN IF target # <<>> /\ CanLink(source, target[1])
          THEN LET upsert == insert_or_update_edge(
                               acc.stored, EdgeDoc(pipeline, source, target[1], hit))
               IN LinkHits(source, Tail(found),
                           [stored |-> upsert.stored,
                            count |-> Tally(acc.count, upsert.created)])
          ELSE LinkHits(source, Tail(found), acc)

\* "for document in documents" of run() as a function: one run that is not
\* stopped, over the documents in the given order.
RECURSIVE UninterruptedRun(_, _)
UninterruptedRun(order, acc) ==
  IF order = <<>> THEN acc
  ELSE LET node == NodeById(Head(order))
           skipped == \/ pipeline # "rs" /\ ExtractText(node) = <<>>
                      \/ pipeline = "bwb" /\ ~Truthy(node.bwb_id)
           found == IF skipped THEN <<>> ELSE DetectFor(pipeline, node, domain_config)
       IN UninterruptedRun(Tail(order), LinkHits(node, found, acc))

\* The orders in which a complete run() may enumerate its documents.
CandidateOrders ==
  CASE pipeline = "rs" -> Orderings(Ids(_load_judgments({})))
    [] pipeline = "eu" -> Orderings(Ids(_load_eu_documents))
    [] pipeline = "tk" ->
         {a \o b : a \in Orderings(Ids(_load_tk_documents(COLLECTION_PUBLICATIONS))),
                   b \in Orderings(Ids(_load_tk_documents(COLLECTION_PROCEDURES)))}
    [] OTHER -> Orderings(Ids(_load_articles(_load_bwb_ids(domain_config))))

\* C20: when a run() was stopped after some of its documents and the run()
\* after it returned, the stored edges are those of one run that is not
\* stopped, and the counts of the two runs add up to the count of that run,
\* in whatever order the documents are enumerated.  The nodes are those the
\* two runs read: nothing was ingested since.
C20_ResumedRunEqualsUninterrupted ==
  (pc = "returned" /\ log.prev # <<>> /\ log.prev[1].interrupted /\ ~log.fresh) =>
    \A order \in CandidateOrders :
      LET full == UninterruptedRun(order, [stored |-> log.prev[1].base, count |-> 0])
      IN /\ edges = full.stored
         /\ log.prev[1].count + result[1] = full.count

C20_Witness ==
  /\ pc = "returned"
  /\ log.prev # <<>>
  /\ log.prev[1].interrupted
  /\ ~log.fresh
  /\ log.prev[1].written # {}
  /\ log.prev[1].count >= 1
  /\ result[1] >= 1

(***************************************************************************)
(* Two runs of one pipeline at the same time, over one store.  Each edge   *)
(* upsert is one step: the store serialises the upserts of a key.          *)
(***************************************************************************)
Workers == {1, 2}

\* The early returns of run(), before its loop.
ReturnsEarly ==
  CASE pipeline = "rs" -> DOMAIN Rs_load_code_aliases(domain_config) = {}
    [] pipeline = "eu" -> _load_eu_documents = {}
    [] pipeline = "tk" ->
         \/ _load_tk_documents(COLLECTION_PUBLICATIONS)
              \cup _load_tk_documents(COLLECTION_PROCEDURES) = {}
         \/ (DOMAIN _load_code_aliases(domain_config) = {}
             /\ _load_instrument_aliases(domain_config) = <<>>)
    [] OTHER -> _load_bwb_ids(domain_config) = {}
                  \/ _load_articles(_load_bwb_ids(domain_config)) = {}

\* The edges an earlier run may have left: those of a run stopped after some
\* of its documents.
EarlierEdges ==
  {UninterruptedRun(SubSeq(order, 1, k), [stored |-> {}, count |-> 0]).stored :
     order \in CandidateOrders, k \in {0, 1}}

\* Both runs have passed the early returns of run() and stand before their
\* loops, each with the order in which its query returned the documents.
ConcInit ==
  /\ pipeline \in {"rs", "eu", "tk", "bwb"}
  /\ domain_config = _load_domain_config("strafrecht")
  /\ store_citations \in (IF pipeline = "bwb" THEN BOOLEAN ELSE {FALSE})
  /\ \E t \in TextsFor(pipeline) : nodes = NodesOf(pipeline, t[1], t[2])
  /\ ~ReturnsEarly
  /\ edges \in EarlierEdges
  /\ pc = "idle" /\ since = <<>> /\ documents = <<>> /\ document = None
  /\ hits = <<>> /\ edges_created = 0 /\ result = <<>> /\ log = <<>>
  /\ \E first, second \in CandidateOrders :
       workers =
         [base |-> edges,
          run |-> [w \in Workers |->
                    [pc |-> "documents",
                     documents |-> IF w = 1 THEN first ELSE second,
                     document |-> None, hits |-> <<>>, edges_created |-> 0,
                     result |-> <<>>]]]
  /\ keyed = <<>> /\ driver = <<>>
  /\ DIdle

\* One round of "for document in documents" of run w.
ConcScan(w) ==
  /\ workers # <<>>
  /\ workers.run[w].pc = "documents"
  /\ workers.run[w].documents # <<>>
  /\ LET node == NodeById(Head(workers.run[w].documents))
         skipped == \/ pipeline # "rs" /\ ExtractText(node) = <<>>
                    \/ pipeline = "bwb" /\ ~Truthy(node.bwb_id)
     IN \E found \in {IF skipped THEN <<>> ELSE DetectFor(pipeline, node, domain_config)} :
        /\ workers' = [workers EXCEPT !.run[w] =
                         [@ EXCEPT !.documents = Tail(@), !.document = NodeId(node),
                                   !.hits = found,
                                   !.pc = IF found = <<>> THEN "documents" ELSE "hits"]]
        /\ nodes' = IF pipeline = "bwb" /\ ~skipped /\ store_citations /\ Truthy(node.key)
                    THEN (nodes \ {node}) \cup {[node EXCEPT !.citations = Citations(found)]}
                    ELSE nodes
  /\ UNCHANGED <<pipeline, domain_config, store_citations, edges, pc, since, documents,
                 document, hits, edges_created, result, log, keyed, driver, dvars>>

\* One round of "for hit in hits" of run w where the store answers the upsert
\* from what run w saw when it started: has() and insert() of a key are not
\* one step.
ConcResolveStale(w) ==
  /\ workers # <<>>
  /\ workers.run[w].pc = "hits"
  /\ LET run == workers.run[w]
         hit == Head(run.hits)
         source == NodeById(run.document)
     IN \E target \in {ResolveFor(pipeline, hit)} :
        LET linked == target # <<>> /\ CanLink(source, target[1])
            edge_doc == EdgeDoc(pipeline, source, target[1], hit)
            upsert == [stored |-> insert_or_update_edge(edges, edge_doc).stored,
                       created |-> edge_doc._key \notin Keys(workers.base)]
        IN /\ edges' = IF linked THEN upsert.stored ELSE edges
           /\ workers' = [workers EXCEPT !.run[w] =
                            [@ EXCEPT !.hits = Tail(@),
                                      !.pc = IF Tail(run.hits) = <<>> THEN "documents"
                                             ELSE "hits",
                                      !.edges_created =
                                         IF linked THEN Tally(@, upsert.created) ELSE @]]
  /\ UNCHANGED <<pipeline, domain_config, store_citations, nodes, pc, since, documents,
                 document, hits, edges_created, result, log, keyed, driver, dvars>>

\* One round of "for hit in hits" of run w: the target is resolved and the
\* edge upserted, in one step.
ConcResolve(w) ==
  /\ workers # <<>>
  /\ workers.run[w].pc = "hits"
  /\ LET run == workers.run[w]
         hit == Head(run.hits)
         source == NodeById(run.document)
     IN \E target \in {ResolveFor(pipeline, hit)} :
        LET linked == target # <<>> /\ CanLink(source, target[1])
            edge_doc == EdgeDoc(pipeline, source, target[1], hit)
            upsert == insert_or_update_edge(edges, edge_doc)
        IN /\ edges' = IF linked THEN upsert.stored ELSE edges
           /\ workers' = [workers EXCEPT !.run[w] =
                            [@ EXCEPT !.hits = Tail(@),
                                      !.pc = IF Tail(run.hits) = <<>> THEN "documents"
                                             ELSE "hits",
                                      !.edges_created =
                                         IF linked THEN Tally(@, upsert.created) ELSE @]]
  /\ UNCHANGED <<pipeline, domain_config, store_citations, nodes, pc, since, documents,
                 document, hits, edges_created, result, log, keyed, driver, dvars>>

\* "return edges_created" of run w
ConcReturn(w) ==
  /\ workers # <<>>
  /\ workers.run[w].pc = "documents"
  /\ workers.run[w].documents = <<>>
  /\ workers' = [workers EXCEPT !.run[w] =
                   [@ EXCEPT !.pc = "returned", !.result = <<workers.run[w].edges_created>>]]
  /\ UNCHANGED <<pvars, keyed, driver, dvars>>

ConcNext == \E w \in Workers : ConcScan(w) \/ ConcResolve(w) \/ ConcReturn(w)

ConcSpec == ConcInit /\ [][ConcNext]_vars

BothReturned == workers # <<>> /\ \A w \in Workers : workers.run[w].pc = "returned"

\* C21: when two runs of a pipeline over the same documents have both
\* returned, each edge key of the run is stored exactly once, and the two
\* counts add up to the number of keys that were not stored before the runs.
C21_ConcurrentRunsOneEdgePerKey ==
  BothReturned =>
    /\ \A order \in CandidateOrders :
         Keys(edges) = Keys(UninterruptedRun(order, [stored |-> workers.base,
                                                     count |-> 0]).stored)
    /\ \A e1, e2 \in edges : e1._key = e2._key => e1 = e2
    /\ workers.run[1].result[1] + workers.run[2].result[1]
         = Cardinality(Keys(edges) \ Keys(workers.base))

C21_Witness ==
  /\ BothReturned
  /\ workers.base # {}
  /\ workers.run[1].result[1] >= 1
  /\ workers.run[2].result[1] >= 1

\* C22: no step of a pipeline removes an edge key, and a stored edge changes
\* only in the step that upserts its key; so the edge of a citation that a
\* later run no longer detects stays as it was stored.
C22_EdgesAreNeverDeleted ==
  [][/\ Keys(edges) \subseteq Keys(edges')
     /\ \A e \in edges :
          e \notin edges' =>
            /\ pc = "hits"
            /\ log'.upsert # <<>>
            /\ log'.upsert[1].doc._key = e._key]_vars

\* A run has scanned the first source document after its text was
\* withdrawn: the edge the run before wrote for it is stored as it was written.
C22_Witness ==
  /\ pc = "returned"
  /\ log.prev # <<>>
  /\ log.prev[1].changed
  /\ NodeById(FirstSource).text = Withdrawn
  /\ FirstSource \in log.scanned
  /\ \E w \in log.prev[1].written :
       /\ w.document = FirstSource
       /\ w.edge \in edges
       /\ w.edge._key \notin WrittenKeys(log.written)

\* C23: the BWB pipeline without store_citations never changes a node; with
\* store_citations, when run() has returned and nothing was ingested since,
\* the citations stored on every article it scanned are the hits detected in
\* its text, whether their target is stored or not.
C23_CitationsStoredOnlyWhenRequested ==
  /\ [][(pipeline = "bwb" /\ ~store_citations /\ pc \in {"idle", "documents", "hits"})
          => nodes' = nodes]_vars
  /\ [](pipeline = "bwb" /\ store_citations /\ pc = "returned" /\ ~log.fresh
          => \A d \in log.scanned :
               LET found == DetectFor("bwb", NodeById(d), domain_config)
                   stored == NodeById(d).citations
               IN /\ Len(stored) = Len(found)
                  /\ \A i \in DOMAIN found :
                       stored[i] = [start |-> found[i].start, end |-> found[i].end,
                                    text |-> found[i].text,
                                    target_bwb_id |-> found[i].bwb_id,
                                    target_article_number |-> found[i].article_number,
                                    confidence |-> found[i].confidence])

\* A second run with store_citations has replaced the citations of the first
\* source article, whose text was withdrawn, by the empty list, and an article
\* carries a citation whose target is not stored.
C23_Witness ==
  /\ pipeline = "bwb" /\ store_citations /\ pc = "returned" /\ ~log.fresh
  /\ log.prev # <<>> /\ log.prev[1].changed
  /\ FirstSource \in log.scanned
  /\ NodeById(FirstSource).text = Withdrawn
  /\ NodeById(FirstSource).citations = <<>>
  /\ \E d \in log.scanned :
       \E i \in DOMAIN NodeById(d).citations :
         get_node(COLLECTION_INSTRUMENT_ARTICLES,
                  make_node_key(<<NodeById(d).citations[i].target_bwb_id,
                                  NodeById(d).citations[i].target_article_number>>)) = <<>>

\* C24: every detector returns its hits by ascending start of their match in
\* the text; detect_bwb_article_citations by ascending (start, article_number).
C24_HitsInTextOrder ==
  dDone =>
    /\ \A i, j \in DOMAIN dHits : i < j => dHits[i].start <= dHits[j].start
    /\ dFamily = "bwb" =>
         \A i, j \in DOMAIN dHits : i < j => ~BwbHitLess(dHits[j], dHits[i])

(***************************************************************************)
(* The key functions of lawgraph.models and of _create_semantic_edge,      *)
(* applied to drawn inputs.  The strings are ASCII, on which the NFKD      *)
(* normalisation and the ASCII encoding of _sanitize_key change nothing.   *)
(***************************************************************************)
MaxKeyLen == 3

\* A letter of either case, a digit, the underscore, a character that the
\* sanitizer rewrites, and the blank.
KeyAlphabet == {"a", "B", "7", "_", "-", " "}

RECURSIVE StringsUpTo(_)
StringsUpTo(n) ==
  IF n = 0 THEN {""}
  ELSE LET shorter == StringsUpTo(n - 1)
       IN shorter \cup {s \o c : s \in shorter, c \in KeyAlphabet}

\* The argument lists of make_node_key: one part, or an identifier of a law
\* with an article number.
KeyParts ==
  {<<s>> : s \in StringsUpTo(MaxKeyLen)}
    \cup {<<bwb_id, article_number>> :
            bwb_id \in {BWB_SR, "bwbr0001854", None, " "},
            article_number \in {"5", "5a", "5A", "", None, "_"}}

\* The nodes two upserts may link: source documents of the TK pipeline and
\* the nodes their hits resolve to.
KeySources ==
  {[collection |-> c, key |-> k] :
     c \in {COLLECTION_PUBLICATIONS, COLLECTION_PROCEDURES},
     k \in {"tk-1", "tk_1", "tk-2", "TK-2"}}

KeyTargets ==
  {[collection |-> COLLECTION_INSTRUMENT_ARTICLES, key |-> "bwbr0001854_5"],
   [collection |-> COLLECTION_INSTRUMENTS, key |-> "bwbr0001854"],
   [collection |-> COLLECTION_INSTRUMENTS, key |-> "32019l1158"]}

KeyInit ==
  /\ \/ \E parts \in KeyParts :
          keyed = [op |-> "node", pc |-> "drawn", parts |-> parts, key |-> "",
                   again |-> ""]
     \/ \E s1, s2 \in KeySources, t1, t2 \in KeyTargets :
          keyed = [op |-> "edge", pc |-> "drawn",
                   first |-> [source |-> s1, target |-> t1],
                   second |-> [source |-> s2, target |-> t2],
                   keys |-> <<>>]
  /\ workers = <<>> /\ driver = <<>>
  /\ PIdle
  /\ DIdle

\* key = make_node_key(*parts)
MakeNodeKey ==
  /\ keyed # <<>> /\ keyed.op = "node" /\ keyed.pc = "drawn"
  /\ keyed' = [keyed EXCEPT !.pc = "made", !.key = make_node_key(keyed.parts)]
  /\ UNCHANGED <<pvars, dvars, workers, driver>>

\* make_node_key(key), as a resolver or _create_semantic_edge applies it to a
\* key that make_node_key built.
MakeNodeKeyAgain ==
  /\ keyed # <<>> /\ keyed.op = "node" /\ keyed.pc = "made"
  /\ keyed' = [keyed EXCEPT !.pc = "again", !.again = make_node_key(<<keyed.key>>)]
  /\ UNCHANGED <<pvars, dvars, workers, driver>>

\* edge_key of _create_semantic_edge for the two upserts
MakeEdgeKeys ==
  /\ keyed # <<>> /\ keyed.op = "edge" /\ keyed.pc = "drawn"
  /\ keyed' = [keyed EXCEPT
                 !.pc = "made",
                 !.keys = <<EdgeKey(keyed.first.source.key, keyed.first.target.key,
                                    RELATION_MENTIONS_ARTICLE),
                            EdgeKey(keyed.second.source.key, keyed.second.target.key,
                                    RELATION_MENTIONS_ARTICLE)>>]
  /\ UNCHANGED <<pvars, dvars, workers, driver>>

KeyNext == MakeNodeKey \/ MakeNodeKeyAgain \/ MakeEdgeKeys

KeySpec == KeyInit /\ [][KeyNext]_vars

\* Whether a string holds a letter or a digit.
HasKeyMaterial(s) == \E i \in 1..Len(s) : IsLetter(Char(s, i)) \/ IsDigit(Char(s, i))

KeyNodeId(n) == n.collection \o "/" \o n.key

\* C26: two upserts with different (source node id, target node id, relation)
\* never compute the same edge key.
C26_EdgeKeysInjective ==
  (keyed # <<>> /\ keyed.op = "edge" /\ keyed.pc = "made") =>
    (<<KeyNodeId(keyed.first.source), KeyNodeId(keyed.first.target)>>
       # <<KeyNodeId(keyed.second.source), KeyNodeId(keyed.second.target)>>
     => keyed.keys[1] # keyed.keys[2])

\* C27: every edge the EU pipeline writes for a hit of kind "article" targets
\* a node of instrument_articles, and every edge that targets a node of
\* instruments was written for a hit of kind "instrument".
C27_EuArticleHitsTargetArticles ==
  pipeline = "eu" =>
    \A w \in log.written :
      /\ w.hit.kind = "article"
           => NodeById(w.target).collection = COLLECTION_INSTRUMENT_ARTICLES
      /\ NodeById(w.target).collection = COLLECTION_INSTRUMENTS
           => w.hit.kind = "instrument"

\* The positions of the hits of found that reach the edge upsert with target t.
HitsOnTarget(source, found, t) ==
  {i \in DOMAIN found :
     LET target == ResolveFor(pipeline, found[i])
     IN target = <<t>> /\ CanLink(source, t)}

\* The largest position of a set of positions
LastOf(positions) == CHOOSE i \in positions : \A j \in positions : j <= i

\* C28: when run() has returned, for every document and every node it wrote
\* an edge for, one edge is stored under the key of that document and node;
\* it carries the confidence and the meta of the last hit of the document, in
\* the detector's order, that resolves to the node; and the run has counted
\* no more edges than it wrote keys.
C28_LastHitWinsCountedOnce ==
  (pc = "returned" /\ ~log.fresh) =>
    /\ \A d \in {w.document : w \in log.written} :
         LET source == NodeById(d)
             found == DetectFor(pipeline, source, domain_config)
         IN \A t \in {n \in nodes : \E w \in log.written :
                                       w.document = d /\ w.target = NodeId(n)} :
              LET on == HitsOnTarget(source, found, t)
                  key == EdgeKey(source.key, t.key, RelationOf(pipeline))
              IN /\ on # {}
                 /\ Cardinality({e \in edges : e._key = key}) = 1
                 /\ \A e \in edges :
                      e._key = key =>
                        /\ e.confidence = found[LastOf(on)].confidence
                        /\ e.meta = EdgeMeta(pipeline, found[LastOf(on)])
    /\ result[1] <= Cardinality(WrittenKeys(log.written))

\* A returned run scanned a document with two hits of different confidence
\* on one node: the stored edge has the confidence of the later one.
C28_Witness ==
  /\ pc = "returned" /\ ~log.fresh
  /\ \E w1, w2 \in log.written :
       /\ w1.document = w2.document
       /\ w1.edge._key = w2.edge._key
       /\ w1.hit.start < w2.hit.start
       /\ w1.hit.confidence # w2.hit.confidence
       /\ w1.created /\ ~w2.created
       /\ w2.edge \in edges
       /\ result[1] < Cardinality(log.written)

\* C29: every edge the Rechtspraak pipeline writes stems from a hit with a
\* bwb_id, an alias-qualified one, and every stored edge of the source
\* rechtspraak-article-linker has the confidence 0.95.
C29_RsWritesAliasHitsOnly ==
  pipeline = "rs" =>
    /\ \A w \in log.written :
         Truthy(w.hit.bwb_id) /\ w.hit.confidence = CONF_ALIAS
    /\ \A e \in edges :
         e.source = SEMANTIC_SOURCE("rs") => e.confidence = CONF_ALIAS

\* A returned run wrote an edge for a judgment whose text also holds a bare
\* article number of an article that is stored.
C29_Witness ==
  /\ pipeline = "rs" /\ pc = "returned" /\ ~log.fresh
  /\ \E w \in log.written :
       /\ w.edge \in edges
       /\ \E i \in DOMAIN DetectFor("rs", NodeById(w.document), domain_config) :
            LET hit == DetectFor("rs", NodeById(w.document), domain_config)[i]
            IN /\ hit.bwb_id = ""
               /\ hit.confidence = CONF_BARE_NUMBER
               /\ get_node(COLLECTION_INSTRUMENT_ARTICLES,
                           make_node_key(<<BWB_SR, hit.article_number>>)) # <<>>

(***************************************************************************)
(* cli/semantic_all.py: the command that runs the four linkers in a row.   *)
(***************************************************************************)
\* The steps of main(), in the order of its _run_optional_step calls.
Steps == <<"TK", "Rechtspraak", "EU", "BWB">>

_TRUE_VALUES == {"1", "true"}

\* The values a skip variable may have in the environment; None when unset.
SkipValues == {None, "", "1", "true", " TRUE ", "0"}

\* _should_skip, of the value os.getenv returned
_should_skip(value) ==
  IF value = None \/ value = "" THEN FALSE
  ELSE Lower(Strip(value)) \in _TRUE_VALUES

\* The largest exit code a runner ends with.
MaxExitCode == 2

\* The code of a SystemExit: <<>> for None, <<n>> for an integer.
ExitCodes == {<<>>} \cup {<<n>> : n \in 0..MaxExitCode}

\* How a runner ends: it returns, raises SystemExit, or raises something else.
Outcomes ==
  {[kind |-> "returns", code |-> <<>>], [kind |-> "Exception", code |-> <<>>]}
    \cup {[kind |-> "SystemExit", code |-> c] : c \in ExitCodes}

Pending == [kind |-> "pending", code |-> <<>>]

\* A SystemExit that _run_step takes for completion, whatever its code.
ExitCompletesAlways(code) == TRUE

\* _run_step: "exc.code not in (None, 0)" is false
ExitCompletes(code) == code = <<>> \/ code = <<0>>

DriverInit ==
  /\ driver = [pc |-> 1, status |-> "main", steps |-> <<>>]
  /\ workers = <<>> /\ keyed = <<>>
  /\ PIdle
  /\ DIdle

\* _run_optional_step: the step is skipped, or _run_step calls its runner.
RunOptionalStep ==
  /\ driver # <<>> /\ driver.status = "main" /\ driver.pc <= Len(Steps)
  /\ \E value \in SkipValues :
       driver' =
         IF _should_skip(value)
         THEN [driver EXCEPT !.pc = @ + 1,
                             !.steps = Append(@, [name |-> Steps[driver.pc], env |-> value,
                                                  started |-> FALSE, outcome |-> Pending])]
         ELSE [driver EXCEPT !.status = "running",
                             !.steps = Append(@, [name |-> Steps[driver.pc], env |-> value,
                                                  started |-> TRUE, outcome |-> Pending])]
  /\ UNCHANGED <<pvars, dvars, workers, keyed>>

\* _run_step after runner(): the step completed, or the exception leaves main().
RunnerEnds ==
  /\ driver # <<>> /\ driver.status = "running"
  /\ \E outcome \in Outcomes :
       LET completed == \/ outcome.kind = "returns"
                        \/ outcome.kind = "SystemExit" /\ ExitCompletes(outcome.code)
       IN driver' = [driver EXCEPT
                       !.steps[Len(driver.steps)].outcome = outcome,
                       !.status = IF completed THEN "main" ELSE "raised",
                       !.pc = IF completed THEN @ + 1 ELSE @]
  /\ UNCHANGED <<pvars, dvars, workers, keyed>>

\* logger.info("semantic-all completed.")
MainCompletes ==
  /\ driver # <<>> /\ driver.status = "main" /\ driver.pc = Len(Steps) + 1
  /\ driver' = [driver EXCEPT !.status = "completed"]
  /\ UNCHANGED <<pvars, dvars, workers, keyed>>

DriverNext == RunOptionalStep \/ RunnerEnds \/ MainCompletes

DriverSpec == DriverInit /\ [][DriverNext]_vars

\* The place of a step in the order TK, Rechtspraak, EU, BWB.
StepOrder(name) ==
  CASE name = "TK" -> 1 [] name = "Rechtspraak" -> 2 [] name = "EU" -> 3 [] OTHER -> 4

\* C30: the steps are taken in the order TK, Rechtspraak, EU, BWB; a step is
\* started only when every step started before it has completed; a step whose
\* skip variable is "1" or "true" is not started; after a SystemExit with a
\* code other than None and 0 no step follows; a SystemExit with None or 0
\* leaves the command running, at the next step.
C30_DriverRunsStepsInOrder ==
  driver # <<>> =>
    LET steps == driver.steps IN
    /\ \A i \in DOMAIN steps : StepOrder(steps[i].name) = i
    /\ \A i \in DOMAIN steps :
         (steps[i].started /\ i < Len(steps)) =>
           \/ steps[i].outcome.kind = "returns"
           \/ steps[i].outcome.kind = "SystemExit" /\ steps[i].outcome.code \in {<<>>, <<0>>}
    /\ \A i \in DOMAIN steps : steps[i].env \in {"1", "true"} => ~steps[i].started
    /\ \A i \in DOMAIN steps :
         (steps[i].outcome.kind = "SystemExit" /\ steps[i].outcome.code \notin {<<>>, <<0>>})
           => i = Len(steps) /\ driver.status = "raised"
    /\ \A i \in DOMAIN steps :
         (steps[i].outcome.kind = "SystemExit" /\ steps[i].outcome.code \in {<<>>, <<0>>})
           => driver.pc > i /\ (i = Len(steps) => driver.status # "raised")

\* The command completed: TK was skipped by "true", the Rechtspraak runner
\* left with SystemExit(None), the EU runner with SystemExit(0), and BWB ran.
C30_Witness ==
  /\ driver # <<>> /\ driver.status = "completed"
  /\ Len(driver.steps) = 4
  /\ driver.steps[1].env = "true" /\ ~driver.steps[1].started
  /\ driver.steps[2].outcome = [kind |-> "SystemExit", code |-> <<>>]
  /\ driver.steps[3].outcome = [kind |-> "SystemExit", code |-> <<0>>]
  /\ driver.steps[4].started /\ driver.steps[4].outcome.kind = "returns"
====
